---- MODULE Spec2Model ----
(***************************************************************************)
(* Novel Navigator: the index builder (src/indexer.ts), the navigation     *)
(* resolver, and the plugin's event handlers that rebuild and read the     *)
(* index.  Documents are the integers 1..NFiles (a document's identity is  *)
(* its path).  A JS Map is a record [keys, val]: the insertion order of    *)
(* its keys and the value stored under each key.  An object reference to a *)
(* ChapterEntry is the pair [book, index] that locates the entry in the    *)
(* owning book's chapters array; a reference to a BookEntry is the book's  *)
(* path.                                                                   *)
(***************************************************************************)
EXTENDS Integers, Sequences, FiniteSets, TLC

\* ---------------------------------------------------------------- bounds
NFiles == 5
MaxChapters == 3
MaxEdits == 1
NLeaves == 1
MaxButtons == 3

Files == 1..NFiles
Leaves == 1..NLeaves

\* ------------------------------------------------------- values and links
None == 0
NoLink == 0
BrokenLink == NFiles + 1
NonStringLink == NFiles + 2
LinkValues == Files \cup {BrokenLink, NonStringLink}

StageFields == <<"outline", "draft", "final">>
ChapterStage == {"info", "outline", "draft", "final"}
LinkFields == {"prologue", "epilogue", "chapter_outline", "chapter_draft", "chapter_final"}

NoFrontmatter ==
    [book_title |-> FALSE, chaptersIsArray |-> FALSE, chapters |-> <<>>,
     prologue |-> NoLink, epilogue |-> NoLink,
     chapter_outline |-> NoLink, chapter_draft |-> NoLink, chapter_final |-> NoLink]

\* ------------------------------------------------------------- JS Map
MapEmpty == [keys |-> <<>>, val |-> <<>>]

MapHas(m, k) == k \in DOMAIN m.val

MapGet(m, k) == m.val[k]

\* variant: a key that is present keeps its value
MapSetOnce(m, k, v) ==
    [keys |-> IF MapHas(m, k) THEN m.keys ELSE Append(m.keys, k),
     val  |-> [x \in (DOMAIN m.val) \cup {k} |-> IF MapHas(m, x) THEN m.val[x] ELSE v]]

MapSet(m, k, v) ==
    [keys |-> IF MapHas(m, k) THEN m.keys ELSE Append(m.keys, k),
     val  |-> [x \in (DOMAIN m.val) \cup {k} |-> IF x = k THEN v ELSE m.val[x]]]

\* ------------------------------------------------------------ sequences
IsFile(f) == f # None

FilterFiles(s) == SelectSeq(s, IsFile)

\* --------------------------------------------------------- link resolver
GetFirstLinkpathDest(link) == IF link \in Files THEN link ELSE None

ResolveWikiLink(link) ==
    IF link = NoLink THEN None ELSE GetFirstLinkpathDest(link)

\* link.replace is not a function: a truthy reference that is not a string
LinkThrows(link) == link = NonStringLink

\* ------------------------------------------------- buildIndex, phase 1
\* variant: a title alone makes a book document
IsBookFrontmatterByTitle(fm) == fm.book_title

IsBookFrontmatter(fm) == fm.book_title /\ fm.chaptersIsArray

PendingBook(v, file) ==
    [bookFile     |-> file,
     title        |-> v[file].book_title,
     prologueFile |-> ResolveWikiLink(v[file].prologue),
     epilogueFile |-> ResolveWikiLink(v[file].epilogue),
     chapterFiles |-> FilterFiles([i \in 1..Len(v[file].chapters) |->
                                      ResolveWikiLink(v[file].chapters[i])])]

RECURSIVE DiscoverBooks(_, _)
DiscoverBooks(v, files) ==
    IF files = <<>> THEN <<>>
    ELSE IF ~IsBookFrontmatter(v[Head(files)]) THEN DiscoverBooks(v, Tail(files))
    ELSE <<PendingBook(v, Head(files))>> \o DiscoverBooks(v, Tail(files))

\* ------------------------------------------------- buildIndex, phase 2
GetChapterKind(file, pending) ==
    IF file = pending.prologueFile THEN "prologue"
    ELSE IF file = pending.epilogueFile THEN "epilogue"
    ELSE "chapter"

AllChapterFiles(pending) ==
    FilterFiles(<<pending.prologueFile>> \o pending.chapterFiles \o <<pending.epilogueFile>>)

NoLabel == [word |-> "", n |-> None]

\* variant: the positional index counted from 1
ChapterEntryOneBased(v, pending, chapterFile, index) ==
    [book          |-> pending.bookFile,
     file          |-> chapterFile,
     index         |-> index + 1,
     kind          |-> GetChapterKind(chapterFile, pending),
     chapterNumber |-> None,
     chapterLabel  |-> NoLabel,
     info          |-> chapterFile,
     outline       |-> ResolveWikiLink(v[chapterFile].chapter_outline),
     draft         |-> ResolveWikiLink(v[chapterFile].chapter_draft),
     final         |-> ResolveWikiLink(v[chapterFile].chapter_final)]

ChapterEntry(v, pending, chapterFile, index) ==
    [book          |-> pending.bookFile,
     file          |-> chapterFile,
     index         |-> index,
     kind          |-> GetChapterKind(chapterFile, pending),
     chapterNumber |-> None,
     chapterLabel  |-> NoLabel,
     info          |-> chapterFile,
     outline       |-> ResolveWikiLink(v[chapterFile].chapter_outline),
     draft         |-> ResolveWikiLink(v[chapterFile].chapter_draft),
     final         |-> ResolveWikiLink(v[chapterFile].chapter_final)]

RECURSIVE LabelFrom(_, _, _)
LabelFrom(chapters, i, chapterCounter) ==
    IF i > Len(chapters) THEN chapters
    ELSE IF chapters[i].kind = "prologue"
    THEN LabelFrom([chapters EXCEPT ![i].chapterLabel = [word |-> "Prologue", n |-> None]],
                   i + 1, chapterCounter)
    ELSE IF chapters[i].kind = "epilogue"
    THEN LabelFrom([chapters EXCEPT ![i].chapterLabel = [word |-> "Epilogue", n |-> None]],
                   i + 1, chapterCounter)
    ELSE LabelFrom([chapters EXCEPT ![i].chapterNumber = chapterCounter + 1,
                                    ![i].chapterLabel = [word |-> "Chapter", n |-> chapterCounter + 1]],
                   i + 1, chapterCounter + 1)

\* variant: the counter advances on every entry, so a prologue consumes a number
AssignLabelsAndNumbersEveryEntry(chapters) ==
    [i \in 1..Len(chapters) |->
        IF LabelFrom(chapters, 1, 0)[i].kind = "chapter"
        THEN [chapters[i] EXCEPT !.chapterNumber = i, !.chapterLabel = [word |-> "Chapter", n |-> i]]
        ELSE LabelFrom(chapters, 1, 0)[i]]

AssignLabelsAndNumbers(chapters) == LabelFrom(chapters, 1, 0)

\* The last entry of the given kind, as a position of the chapters array
\* (book.prologue / book.epilogue are assigned in the forEach, last one wins).
LastOfKind(chapters, kind) ==
    LET at == {i \in 1..Len(chapters) : chapters[i].kind = kind}
    IN IF at = {} THEN None ELSE CHOOSE i \in at : \A j \in at : j <= i

BookEntry(v, pending) ==
    LET all == AllChapterFiles(pending)
        pushed == [i \in 1..Len(all) |-> ChapterEntry(v, pending, all[i], i - 1)]
    IN [file     |-> pending.bookFile,
        title    |-> pending.title,
        chapters |-> AssignLabelsAndNumbers(pushed),
        prologue |-> LastOfKind(pushed, "prologue"),
        epilogue |-> LastOfKind(pushed, "epilogue")]

RECURSIVE SetBooks(_, _, _)
SetBooks(books, v, pendingBooks) ==
    IF pendingBooks = <<>> THEN books
    ELSE SetBooks(MapSet(books, Head(pendingBooks).bookFile, BookEntry(v, Head(pendingBooks))),
                  v, Tail(pendingBooks))

RECURSIVE SetChaptersOfBook(_, _, _)
SetChaptersOfBook(chapters, book, i) ==
    IF i > Len(book.chapters) THEN chapters
    ELSE SetChaptersOfBook(MapSet(chapters, book.chapters[i].file,
                                  [book |-> book.file, index |-> i - 1]),
                           book, i + 1)

RECURSIVE SetChapters(_, _, _)
SetChapters(chapters, books, bookKeys) ==
    IF bookKeys = <<>> THEN chapters
    ELSE SetChapters(SetChaptersOfBook(chapters, MapGet(books, Head(bookKeys)), 1),
                     books, Tail(bookKeys))

\* ------------------------------------------------- buildIndex, phase 3
ChapterAt(books, ref) == MapGet(books, ref.book).chapters[ref.index + 1]

StageFile(chapter, stage) ==
    CASE stage = "info"    -> chapter.info
      [] stage = "outline" -> chapter.outline
      [] stage = "draft"   -> chapter.draft
      [] stage = "final"   -> chapter.final

\* variant: the final stage is left out of potentialStages
RECURSIVE SetPotentialStagesButFinal(_, _, _, _)
SetPotentialStagesButFinal(stages, books, ref, s) ==
    IF s > Len(StageFields) - 1 THEN stages
    ELSE LET file == StageFile(ChapterAt(books, ref), StageFields[s])
         IN SetPotentialStagesButFinal(
                IF file # None
                THEN MapSet(stages, file, [file |-> file, chapter |-> ref, stage |-> StageFields[s]])
                ELSE stages,
                books, ref, s + 1)

RECURSIVE SetPotentialStages(_, _, _, _)
SetPotentialStages(stages, books, ref, s) ==
    IF s > Len(StageFields) THEN stages
    ELSE LET file == StageFile(ChapterAt(books, ref), StageFields[s])
         IN SetPotentialStages(
                IF file # None
                THEN MapSet(stages, file, [file |-> file, chapter |-> ref, stage |-> StageFields[s]])
                ELSE stages,
                books, ref, s + 1)

RECURSIVE SetStages(_, _, _, _)
SetStages(stages, books, chapters, chapterKeys) ==
    IF chapterKeys = <<>> THEN stages
    ELSE SetStages(SetPotentialStages(stages, books, MapGet(chapters, Head(chapterKeys)), 1),
                   books, chapters, Tail(chapterKeys))

\* ------------------------------------------------------------ buildIndex
NoIndex == [built |-> FALSE, books |-> MapEmpty, chapters |-> MapEmpty, stages |-> MapEmpty]

BuildIndex(v, files) ==
    LET pendingBooks == DiscoverBooks(v, files)
        books == SetBooks(MapEmpty, v, pendingBooks)
        chapters == SetChapters(MapEmpty, books, books.keys)
        stages == SetStages(MapEmpty, books, chapters, chapters.keys)
    IN [built |-> TRUE, books |-> books, chapters |-> chapters, stages |-> stages]

\* buildIndex rejects: the document enumeration fails, or a reference that is
\* not a string reaches link.replace in phase 1 or in phase 2.
BookThrows(v, file) ==
    /\ IsBookFrontmatter(v[file])
    /\ \/ \E i \in 1..Len(v[file].chapters) : LinkThrows(v[file].chapters[i])
       \/ LinkThrows(v[file].prologue)
       \/ LinkThrows(v[file].epilogue)

ChapterThrows(v, chapterFile) ==
    \/ LinkThrows(v[chapterFile].chapter_outline)
    \/ LinkThrows(v[chapterFile].chapter_draft)
    \/ LinkThrows(v[chapterFile].chapter_final)

BuildIndexThrows(v, files, enumerationFails) ==
    \/ enumerationFails
    \/ \E i \in 1..Len(files) : BookThrows(v, files[i])
    \/ LET pendingBooks == DiscoverBooks(v, files)
       IN \E b \in 1..Len(pendingBooks) :
            LET all == AllChapterFiles(pendingBooks[b])
            IN \E i \in 1..Len(all) : ChapterThrows(v, all[i])

\* ------------------------------------------------- navigation resolver
NoChapterRef == [book |-> None, index |-> None]
NoStage == [file |-> None, chapter |-> NoChapterRef, stage |-> "info"]
NoneMode == [kind |-> "none", book |-> None, stage |-> NoStage]

\* variant: the chapter table is consulted before the stage table
ResolveToolbarModeChapterFirst(index, file) ==
    IF ~index.built THEN NoneMode
    ELSE IF MapHas(index.chapters, file)
    THEN [kind |-> "chapter-stage", book |-> None,
          stage |-> [chapter |-> MapGet(index.chapters, file), stage |-> "info",
                     file |-> ChapterAt(index.books, MapGet(index.chapters, file)).info]]
    ELSE IF MapHas(index.stages, file)
    THEN [kind |-> "chapter-stage", book |-> None, stage |-> MapGet(index.stages, file)]
    ELSE IF MapHas(index.books, file)
    THEN [kind |-> "book-info", book |-> file, stage |-> NoStage]
    ELSE NoneMode

\* variant: a chapter's own document answers with the chapter-info variant
ResolveToolbarModeChapterInfo(index, file) ==
    IF ~index.built THEN NoneMode
    ELSE IF MapHas(index.stages, file)
    THEN [kind |-> "chapter-stage", book |-> None, stage |-> MapGet(index.stages, file)]
    ELSE IF MapHas(index.chapters, file)
    THEN [kind |-> "chapter-info", book |-> None,
          stage |-> [chapter |-> MapGet(index.chapters, file), stage |-> "info",
                     file |-> ChapterAt(index.books, MapGet(index.chapters, file)).info]]
    ELSE IF MapHas(index.books, file)
    THEN [kind |-> "book-info", book |-> file, stage |-> NoStage]
    ELSE NoneMode

ResolveToolbarModeForFile(index, file) ==
    IF ~index.built THEN NoneMode
    ELSE IF MapHas(index.stages, file)
    THEN [kind |-> "chapter-stage", book |-> None, stage |-> MapGet(index.stages, file)]
    ELSE IF MapHas(index.chapters, file)
    THEN [kind |-> "chapter-stage", book |-> None,
          stage |-> [chapter |-> MapGet(index.chapters, file), stage |-> "info",
                     file |-> ChapterAt(index.books, MapGet(index.chapters, file)).info]]
    ELSE IF MapHas(index.books, file)
    THEN [kind |-> "book-info", book |-> file, stage |-> NoStage]
    ELSE NoneMode

Disabled == [kind |-> "disabled", file |-> None]
FileTarget(file) == [kind |-> "file", file |-> file]

\* variant: a missing stage falls back to the chapter's own document
GetStageTargetOrInfo(chapter, stage) ==
    IF StageFile(chapter, stage) # None THEN FileTarget(StageFile(chapter, stage))
    ELSE FileTarget(chapter.info)

GetStageTarget(chapter, stage) ==
    IF StageFile(chapter, stage) # None THEN FileTarget(StageFile(chapter, stage)) ELSE Disabled

GetBookInfoTarget(bookEntry) ==
    IF bookEntry.file # None THEN FileTarget(bookEntry.file) ELSE Disabled

\* variant: a neighbour without the stage is entered at its own document
GetAdjacentChapterTargetOrInfo(books, chapter, stage, direction) ==
    LET chapters == MapGet(books, chapter.book).chapters
        delta == IF direction = "next" THEN 1 ELSE -1
        targetIndex == chapter.index + delta
    IN IF targetIndex < 0 \/ targetIndex >= Len(chapters) THEN Disabled
       ELSE IF StageFile(chapters[targetIndex + 1], stage) # None
            THEN FileTarget(StageFile(chapters[targetIndex + 1], stage))
            ELSE FileTarget(chapters[targetIndex + 1].info)

\* variant: the direction is not read, the following chapter is always taken
GetAdjacentChapterTargetForward(books, chapter, stage, direction) ==
    LET chapters == MapGet(books, chapter.book).chapters
        targetIndex == chapter.index + 1
    IN IF targetIndex < 0 \/ targetIndex >= Len(chapters) THEN Disabled
       ELSE IF StageFile(chapters[targetIndex + 1], stage) # None
            THEN FileTarget(StageFile(chapters[targetIndex + 1], stage))
            ELSE Disabled

GetAdjacentChapterTarget(books, chapter, stage, direction) ==
    LET chapters == MapGet(books, chapter.book).chapters
        delta == IF direction = "next" THEN 1 ELSE -1
        targetIndex == chapter.index + delta
    IN IF targetIndex < 0 \/ targetIndex >= Len(chapters) THEN Disabled
       ELSE IF StageFile(chapters[targetIndex + 1], stage) # None
            THEN FileTarget(StageFile(chapters[targetIndex + 1], stage))
            ELSE Disabled

NoTargets ==
    [bookInfo |-> Disabled, chapterInfo |-> Disabled, outline |-> Disabled,
     draft |-> Disabled, final |-> Disabled, previous |-> Disabled, next |-> Disabled]

\* stage.chapter and chapter.book are object references into the index the
\* stage entry was resolved from.
GetNavigationTargets(index, stage) ==
    LET chapter == ChapterAt(index.books, stage.chapter)
    IN [bookInfo    |-> GetBookInfoTarget(MapGet(index.books, chapter.book)),
        chapterInfo |-> GetStageTarget(chapter, "info"),
        outline     |-> GetStageTarget(chapter, "outline"),
        draft       |-> GetStageTarget(chapter, "draft"),
        final       |-> GetStageTarget(chapter, "final"),
        previous    |-> GetAdjacentChapterTarget(index.books, chapter, stage.stage, "previous"),
        next        |-> GetAdjacentChapterTarget(index.books, chapter, stage.stage, "next")]

\* getNavigationTargets on an indexer whose lastIndex is `held`, for a stage
\* entry taken from the snapshot `owner`: a missing index is only logged, and
\* the targets are read through the entry's own chapter and book references.
GetNavigationTargetsHolding(held, owner, stage) == GetNavigationTargets(owner, stage)

\* ------------------------------------------------- book toolbar layout
\* Widths are pixels.  Button i of the code (0-based) is widths[i + 1].
buffer == 10

Null == -1

RECURSIVE GetWidth(_, _, _)
GetWidth(widths, first, last) ==
    IF first > last THEN 0 ELSE widths[first] + GetWidth(widths, first + 1, last)

TotalNatural(widths) == GetWidth(widths, 1, Len(widths))

\* variant: the overflow button is appended after the chapter buttons
SplitIndexAtEnd(widths) == Len(widths)

\* build: the child position at which the overflow button is inserted
RECURSIVE SplitIndexFrom(_, _, _)
SplitIndexFrom(widths, i, currentWidth) ==
    IF i >= Len(widths) THEN Len(widths)
    ELSE IF 2 * (currentWidth + widths[i + 1]) >= TotalNatural(widths) THEN i
    ELSE SplitIndexFrom(widths, i + 1, currentWidth + widths[i + 1])

SplitIndex(widths) == SplitIndexFrom(widths, 0, 0)

\* calculateSqueeze.  leftIndices is 0 .. left - 1 and rightIndices is
\* right .. N - 1 throughout.
\* variant: the initial split moves nothing to the right
InitialSplitNone(widths, left, currentRightWidth) == left

\* variant: the split is the middle of the button sequence, whatever the widths
InitialSplitMidpoint(widths, left, currentRightWidth) == Len(widths) \div 2

RECURSIVE InitialSplit(_, _, _)
InitialSplit(widths, left, currentRightWidth) ==
    IF 2 * currentRightWidth < TotalNatural(widths) /\ left > 1
    THEN InitialSplit(widths, left - 1, currentRightWidth + widths[left])
    ELSE left

\* variant: the squeeze loop leaves the overflow button's width out
RECURSIVE SqueezeLoopWithoutOverflow(_, _, _, _, _)
SqueezeLoopWithoutOverflow(widths, ovrWidth, containerWidth, left, right) ==
    LET leftWidth == GetWidth(widths, 1, left)
        rightWidth == GetWidth(widths, right + 1, Len(widths))
    IN IF leftWidth + rightWidth + buffer > containerWidth
            /\ ~(left = 0 /\ right = Len(widths))
       THEN IF (left > 0 /\ right = Len(widths))
                \/ (left > 0 /\ right < Len(widths) /\ leftWidth >= rightWidth)
            THEN SqueezeLoopWithoutOverflow(widths, ovrWidth, containerWidth, left - 1, right)
            ELSE SqueezeLoopWithoutOverflow(widths, ovrWidth, containerWidth, left, right + 1)
       ELSE [left |-> left, right |-> right]

\* variant: the squeeze loop leaves the safety buffer out
RECURSIVE SqueezeLoopWithoutBuffer(_, _, _, _, _)
SqueezeLoopWithoutBuffer(widths, ovrWidth, containerWidth, left, right) ==
    LET leftWidth == GetWidth(widths, 1, left)
        rightWidth == GetWidth(widths, right + 1, Len(widths))
    IN IF leftWidth + rightWidth + ovrWidth > containerWidth
            /\ ~(left = 0 /\ right = Len(widths))
       THEN IF (left > 0 /\ right = Len(widths))
                \/ (left > 0 /\ right < Len(widths) /\ leftWidth >= rightWidth)
            THEN SqueezeLoopWithoutBuffer(widths, ovrWidth, containerWidth, left - 1, right)
            ELSE SqueezeLoopWithoutBuffer(widths, ovrWidth, containerWidth, left, right + 1)
       ELSE [left |-> left, right |-> right]

\* variant: the side to pull from is the one that reaches past the container's middle
RECURSIVE SqueezeLoopAroundCentre(_, _, _, _, _)
SqueezeLoopAroundCentre(widths, ovrWidth, containerWidth, left, right) ==
    LET leftWidth == GetWidth(widths, 1, left)
        rightWidth == GetWidth(widths, right + 1, Len(widths))
    IN IF leftWidth + rightWidth + ovrWidth + buffer > containerWidth
            /\ ~(left = 0 /\ right = Len(widths))
       THEN IF (left > 0 /\ right = Len(widths))
                \/ (left > 0 /\ right < Len(widths) /\ 2 * leftWidth >= containerWidth)
            THEN SqueezeLoopAroundCentre(widths, ovrWidth, containerWidth, left - 1, right)
            ELSE SqueezeLoopAroundCentre(widths, ovrWidth, containerWidth, left, right + 1)
       ELSE [left |-> left, right |-> right]

RECURSIVE SqueezeLoop(_, _, _, _, _)
SqueezeLoop(widths, ovrWidth, containerWidth, left, right) ==
    LET leftWidth == GetWidth(widths, 1, left)
        rightWidth == GetWidth(widths, right + 1, Len(widths))
    IN IF leftWidth + rightWidth + ovrWidth + buffer > containerWidth
            /\ ~(left = 0 /\ right = Len(widths))
       THEN IF (left > 0 /\ right = Len(widths))
                \/ (left > 0 /\ right < Len(widths) /\ leftWidth >= rightWidth)
            THEN SqueezeLoop(widths, ovrWidth, containerWidth, left - 1, right)
            ELSE SqueezeLoop(widths, ovrWidth, containerWidth, left, right + 1)
       ELSE [left |-> left, right |-> right]

CalculateSqueeze(widths, ovrWidth, containerWidth) ==
    IF TotalNatural(widths) + buffer <= containerWidth
    THEN [hideStart |-> Null, hideEnd |-> Null, showOverflow |-> FALSE]
    ELSE LET split == InitialSplit(widths, Len(widths), 0)
             squeezed == SqueezeLoop(widths, ovrWidth, containerWidth, split, split)
             hideStart == squeezed.left
             hideEnd == squeezed.right - 1
         IN [hideStart |-> IF hideStart <= hideEnd THEN hideStart ELSE Null,
             hideEnd |-> IF hideStart <= hideEnd THEN hideEnd ELSE Null,
             showOverflow |-> TRUE]

\* runLayout of buildBookToolbarTruncateMiddle: btnWidths[i] || 0
WidthAt(btnWidths, i) == IF i >= 0 /\ i < Len(btnWidths) THEN btnWidths[i + 1] ELSE 0

\* the "expand range outward" loop; hangs when an iteration neither moves an
\* end of the range nor lowers currentWidth, since the next one repeats it
RECURSIVE ExpandRange(_, _, _, _, _)
ExpandRange(btnWidths, containerWidth, currentWidth, hStart, hEnd) ==
    IF ~(currentWidth > containerWidth /\ (hStart >= 0 \/ hEnd < Len(btnWidths)))
    THEN [start |-> hStart, end |-> hEnd, hangs |-> FALSE]
    ELSE LET freed == WidthAt(btnWidths, hStart)
                        + (IF hStart # hEnd THEN WidthAt(btnWidths, hEnd) ELSE 0)
             nextStart == IF hStart > 0 THEN hStart - 1 ELSE hStart
             nextEnd == IF hEnd < Len(btnWidths) - 1 THEN hEnd + 1 ELSE hEnd
         IN IF currentWidth - freed <= containerWidth
            THEN [start |-> hStart, end |-> hEnd, hangs |-> FALSE]
            ELSE IF nextStart = hStart /\ nextEnd = hEnd /\ freed = 0
            THEN [start |-> hStart, end |-> hEnd, hangs |-> TRUE]
            ELSE ExpandRange(btnWidths, containerWidth, currentWidth - freed, nextStart, nextEnd)

\* the overflow button's measured width: getBoundingClientRect().width || 34
MeasuredOverflowWidth(ovrWidth) == IF ovrWidth = 0 THEN 34 ELSE ovrWidth

RunLayoutRange(btnWidths, ovrWidth, containerWidth) ==
    IF TotalNatural(btnWidths) > containerWidth - 2
    THEN ExpandRange(btnWidths, containerWidth,
                     TotalNatural(btnWidths) + MeasuredOverflowWidth(ovrWidth),
                     Len(btnWidths) \div 2, Len(btnWidths) \div 2)
    ELSE [start |-> Null, end |-> Null, hangs |-> FALSE]

\* a toolbar: engine is "BookToolbar" or "TruncateMiddle" (runLayout); overflow
\* is "unstyled" while the button is as it was created, then "shown" or "hidden";
\* event is the handler that ran last, and menu, chosen and opened are the menu
\* it showed, the menu item it was given and the document it opened; repeated
\* says that the last layout was asked for the width of the one before it
NoRange == [start |-> Null, end |-> Null]

NoItem == [title |-> NoLabel, button |-> None]

NoBar ==
    [engine |-> "none", buttons |-> <<>>, widths |-> <<>>, ovrWidth |-> 0, built |-> FALSE,
     hidden |-> <<>>, overflow |-> "unstyled", lastRange |-> NoRange, layouts |-> 0,
     containerWidth |-> 0, menu |-> <<>>, chosen |-> NoItem, opened |-> None,
     event |-> "none", hung |-> FALSE, repeated |-> FALSE]

\* createChapterButton for chapter i of the book: aria-label and data-path
ChapterButtons(n) ==
    [i \in 1..n |-> [ariaLabel |-> [word |-> "Chapter", n |-> i], path |-> i]]

\* ------------------------------------------------- toolbar elements
\* A pane is a leaf's view with its injected toolbar element.  content is what
\* the element holds: the stub text of injectToolbar, the text of mode none,
\* the controls a ChapterToolbar rendered, or the buttons a BookToolbar built
\* for the book of the given signature.  toolbar is the BookToolbar constructed
\* for the pane (created says whether there is one), observing whether its
\* ResizeObserver is connected.  requested is the book of the last refresh
\* call made by updateToolbarForLeaf.
NPanes == 2
MaxFrames == 2
MaxElements == 2

Panes == 1..NPanes

OverflowLabel == [word |-> "__overflow__", n |-> None]

NoBook == [file |-> None, title |-> FALSE, chapters |-> <<>>, prologue |-> None, epilogue |-> None]

NoSignature == <<>>

Stub == [kind |-> "stub", signature |-> NoSignature]

NoToolbar ==
    [created |-> FALSE, observing |-> FALSE, element |-> None, currentBook |-> NoBook,
     lastSignature |-> NoSignature, labels |-> <<>>, widths |-> <<>>, ovrWidth |-> 0,
     built |-> FALSE, hidden |-> <<>>, overflow |-> "unstyled"]

\* new BookToolbar(app, toolbar, icons): the observer observes the container
NewBookToolbar == [NoToolbar EXCEPT !.created = TRUE, !.observing = TRUE]

NoContainer == [cssReady |-> FALSE, usableWidth |-> 0]

\* the toolbar elements injected into a pane's view are numbered from 1:
\* element is the one attached to the view now (None after the view's DOM was
\* replaced), tracked the one the plugin's toolbars map holds, bound the one
\* the registered handler was constructed with; file is the document shown
NoPane ==
    [container |-> NoContainer, content |-> Stub, handler |-> "none",
     toolbar |-> NoToolbar, requested |-> NoBook,
     element |-> None, tracked |-> None, bound |-> None, file |-> None]

\* a view with its toolbar element injected
InjectedPane == [NoPane EXCEPT !.element = 1, !.tracked = 1]

\* the view holds no toolbar element
Absent == [kind |-> "absent", signature |-> NoSignature]

\* event: the handler that ran last, the pane it ran for, the document an
\* update found in the view, the book it passed to refresh, whether it threw,
\* and the <<pane, signature>> pairs for which it applied a layout
NoEvent ==
    [kind |-> "none", pane |-> None, document |-> None, book |-> NoBook,
     threw |-> FALSE, applied |-> {}]

\* registered: the panes in the insertion order of the handlers map
NoUi ==
    [labelCache |-> MapEmpty, frames |-> <<>>, panes |-> <<>>, event |-> NoEvent,
     registered |-> <<>>, loaded |-> TRUE]

\* the states of a container: stylesheet not applied yet, no width, laid out
Containers ==
    {[cssReady |-> FALSE, usableWidth |-> 30],
     [cssReady |-> TRUE, usableWidth |-> 0],
     [cssReady |-> TRUE, usableWidth |-> 30]}

\* what getBoundingClientRect().width of the sandbox button gives for a text
\* label and for the overflow icon
Measures == {[label |-> 8, overflow |-> 14], [label |-> 20, overflow |-> 14]}

\* ---------------------------------------------------------------- state
VARIABLES
    vault,      \* the metadata cache: the frontmatter of every document
    lastIndex,  \* NovelIndexer.lastIndex
    scanned,    \* the frontmatter read by the buildIndex call that published lastIndex
    plugin,     \* "constructed", "loading" (onload awaits), "loaded" or "failed"
    leaves,     \* per workspace leaf: the document shown and the toolbar state
    lastEvent,  \* whether the handler that ran last was 'resolved', and how its rebuild ended:
                \* "resolved-enumeration-failed" (getMarkdownFiles threw),
                \* "resolved-failed" (buildIndex rejected after the enumeration),
                \* "resolved-changed" (a snapshot was published under which a shown
                \* document resolves differently than under the one before),
                \* "resolved-published"; "onload-enumeration-failed" when the
                \* enumeration of onload's build threw; otherwise "other"
    bar,        \* one book toolbar, laid out on its own: its buttons, their measured
                \* widths and visibility, the overflow button and its menu
    ui          \* the toolbar elements of the panes with their handlers, the label
                \* cache of BookToolbar and the animation-frame callbacks pending

vars == <<vault, lastIndex, scanned, plugin, leaves, lastEvent, bar, ui>>

\* ------------------------------------------------------------ the vaults
EmptyVault == [f \in Files |-> NoFrontmatter]

BookDocument(prologue, chapters, epilogue) ==
    [NoFrontmatter EXCEPT !.book_title = TRUE, !.chaptersIsArray = TRUE,
                          !.chapters = chapters, !.prologue = prologue, !.epilogue = epilogue]

\* one book of three chapters; only the middle chapter has a draft
StageGapVault ==
    [EmptyVault EXCEPT ![1] = BookDocument(NoLink, <<2, 3, 4>>, NoLink),
                       ![3].chapter_draft = 5]

\* prologue, one chapter, epilogue; the chapter has an outline
FramedVault ==
    [EmptyVault EXCEPT ![1] = BookDocument(2, <<3>>, 4),
                       ![3].chapter_outline = 5]

\* two books that share chapter 4, whose draft is document 3
SharedChapterVault ==
    [EmptyVault EXCEPT ![1] = BookDocument(NoLink, <<3, 4>>, NoLink),
                       ![2] = BookDocument(NoLink, <<4, 5>>, NoLink),
                       ![4].chapter_draft = 3]

\* two chapters, each with an outline of its own
OutlinedVault ==
    [EmptyVault EXCEPT ![1] = BookDocument(NoLink, <<2, 3>>, NoLink),
                       ![2].chapter_outline = 4,
                       ![3].chapter_outline = 5]

SeedVaults == {EmptyVault, StageGapVault, FramedVault, SharedChapterVault, OutlinedVault}

\* the vaults one frontmatter edit away
Edits(v) ==
    {[v EXCEPT ![f].book_title = ~v[f].book_title] : f \in Files}
    \cup {[v EXCEPT ![f].chaptersIsArray = ~v[f].chaptersIsArray, ![f].chapters = <<>>] : f \in Files}
    \cup {[v EXCEPT ![f].chapters = Append(v[f].chapters, link)] :
            f \in {g \in Files : v[g].chaptersIsArray /\ Len(v[g].chapters) < MaxChapters},
            link \in LinkValues}
    \cup {[v EXCEPT ![f].chapters = SubSeq(v[f].chapters, 1, Len(v[f].chapters) - 1)] :
            f \in {g \in Files : v[g].chapters # <<>>}}
    \cup UNION {{[v EXCEPT ![f].chapters[i] = link] : i \in 1..Len(v[f].chapters)} :
            f \in Files, link \in LinkValues}
    \cup {[v EXCEPT ![f][k] = link] : f \in Files, k \in LinkFields, link \in LinkValues \cup {NoLink}}

RECURSIVE WithinEdits(_, _)
WithinEdits(vaults, n) ==
    IF n = 0 THEN vaults
    ELSE WithinEdits(vaults \cup UNION {Edits(v) : v \in vaults}, n - 1)

\* the vaults of the model: at most MaxEdits edits away from a seed
Vaults == WithinEdits(SeedVaults, MaxEdits)

BoundedEdits == [v \in Vaults |-> (Edits(v) \cap Vaults) \ {v}]

\* vault.getMarkdownFiles(): every document once; the two orders put every
\* pair of documents both ways round
Ascending == [i \in 1..NFiles |-> i]
Descending == [i \in 1..NFiles |-> NFiles + 1 - i]
Enumerations == {Ascending, Descending}

\* reached: the handler that ran last resolved a mode for the leaf
NoLeaf ==
    [file |-> None, toolbar |-> FALSE, handler |-> "none", mode |-> NoneMode,
     targets |-> NoTargets, reached |-> FALSE]

Init ==
    /\ vault \in SeedVaults
    /\ lastIndex = NoIndex
    /\ scanned = EmptyVault
    /\ plugin = "constructed"
    /\ leaves = [l \in Leaves |-> NoLeaf]
    /\ lastEvent = "other"
    /\ bar = NoBar
    /\ ui = NoUi

\* ------------------------------------------------------ toolbar handling
\* the leaf as a handler finds it: the document its view shows now (None: not
\* a MarkdownView; its container holds no toolbar element, so nothing of an
\* earlier rendering is shown)
ViewOf(leaf, file) ==
    IF file = None THEN [NoLeaf EXCEPT !.handler = leaf.handler]
    ELSE [leaf EXCEPT !.file = file]

EnsureToolbar(leaf) ==
    IF leaf.file = None THEN leaf
    ELSE [leaf EXCEPT !.toolbar = TRUE]

\* handler.destroy(): BookToolbar defines destroy; ChapterToolbar and
\* BaseToolbar define none, so the call on a chapter handler is a TypeError
DestroyThrows(handler) == handler = "chapter"

\* the handler registered for the leaf once the branch for a mode of the
\* given kind has run, or has been left by the TypeError
SwitchHandler(handler, kind) ==
    CASE kind = "book-info" -> IF DestroyThrows(handler) THEN handler ELSE "book"
      [] kind = "chapter-stage" -> "chapter"
      [] OTHER -> handler

UpdateThrows(index, leaf) ==
    /\ leaf.file # None
    /\ leaf.toolbar
    /\ ResolveToolbarModeForFile(index, leaf.file).kind = "book-info"
    /\ DestroyThrows(leaf.handler)

UpdateToolbarForLeaf(index, leaf) ==
    IF leaf.file = None \/ ~leaf.toolbar THEN [leaf EXCEPT !.reached = FALSE]
    ELSE LET mode == ResolveToolbarModeForFile(index, leaf.file)
         IN CASE mode.kind = "none" ->
                   [leaf EXCEPT !.mode = mode, !.targets = NoTargets, !.reached = TRUE]
              [] mode.kind = "book-info" ->
                   [leaf EXCEPT !.mode = mode, !.targets = NoTargets, !.reached = TRUE,
                                !.handler = SwitchHandler(leaf.handler, mode.kind)]
              [] mode.kind = "chapter-stage" ->
                   [leaf EXCEPT !.mode = mode, !.reached = TRUE,
                                !.handler = SwitchHandler(leaf.handler, mode.kind),
                                !.targets = GetNavigationTargets(index, mode.stage)]
              [] OTHER -> leaf

\* iterateAllLeaves(callback): the leaves in the workspace's order (here their
\* numbers) up to and including the first whose callback throws
Reached(index, seen) ==
    {l \in Leaves : \A k \in 1..(l - 1) : ~UpdateThrows(index, seen[k])}

Unreached(leaf) == [leaf EXCEPT !.reached = FALSE]

\* ------------------------------------------------------------ rebuild
\* buildIndex over every vault and enumeration of the model
Scans == Vaults \X Enumerations
BuildIndexResult == [scan \in Scans |-> BuildIndex(scan[1], scan[2])]
BuildIndexRejects == [scan \in Scans |-> BuildIndexThrows(scan[1], scan[2], FALSE)]

Rejects(v, files, enumerationFails) == enumerationFails \/ BuildIndexRejects[<<v, files>>]

\* variant: the snapshot is published before the stage entries are registered
RebuildNovelIndexUnfinished(index, v, files, enumerationFails) ==
    IF Rejects(v, files, enumerationFails) THEN index
    ELSE [BuildIndexResult[<<v, files>>] EXCEPT !.stages = MapEmpty]

\* variant: a failed enumeration leaves the indexer without an index
RebuildNovelIndexClearsOnFailure(index, v, files, enumerationFails) ==
    IF enumerationFails THEN NoIndex
    ELSE IF Rejects(v, files, enumerationFails) THEN index
    ELSE BuildIndexResult[<<v, files>>]

\* variant: the rebuild leaves the book table of the published snapshot in place
RebuildNovelIndexInPlace(index, v, files, enumerationFails) ==
    IF Rejects(v, files, enumerationFails) THEN index
    ELSE IF index.built THEN [BuildIndexResult[<<v, files>>] EXCEPT !.books = index.books]
    ELSE BuildIndexResult[<<v, files>>]

\* rebuildNovelIndex: buildIndex runs to its end before the first await, so the
\* caller continues with the new snapshot published, or with the old one kept
\* when buildIndex rejected.
RebuildNovelIndex(index, v, files, enumerationFails) ==
    IF Rejects(v, files, enumerationFails) THEN index ELSE BuildIndexResult[<<v, files>>]

\* variant: the refresh reads the index before the rebuild has published
RefreshBeforeRebuild(before, after, leaf) == UpdateToolbarForLeaf(before, leaf)

\* the refresh of the 'resolved' handler, which follows the rebuild
RefreshAfterRebuild(before, after, leaf) == UpdateToolbarForLeaf(after, leaf)

\* --------------------------------------------------------------- actions
\* the user edits frontmatter while the plugin is not loaded
EditFrontmatter(v) ==
    /\ plugin = "constructed"
    /\ vault' = v
    /\ UNCHANGED <<lastIndex, scanned, plugin, leaves, lastEvent, bar, ui>>

OnloadStart(files, enumerationFails) ==
    /\ plugin = "constructed"
    /\ lastIndex' = RebuildNovelIndex(lastIndex, vault, files, enumerationFails)
    /\ scanned' = IF Rejects(vault, files, enumerationFails) THEN scanned ELSE vault
    /\ plugin' = IF Rejects(vault, files, enumerationFails) THEN "failed" ELSE "loading"
    /\ lastEvent' = IF enumerationFails THEN "onload-enumeration-failed" ELSE "other"
    /\ UNCHANGED <<vault, leaves, bar, ui>>

OnloadResume(views) ==
    /\ plugin = "loading"
    /\ plugin' = "loaded"
    /\ LET seen == [l \in Leaves |-> EnsureToolbar(ViewOf(leaves[l], views[l]))]
       IN leaves' = [l \in Leaves |->
                        IF l \in Reached(lastIndex, seen)
                        THEN UpdateToolbarForLeaf(lastIndex, seen[l])
                        ELSE Unreached(leaves[l])]
    /\ lastEvent' = "other"
    /\ UNCHANGED <<vault, lastIndex, scanned, bar, ui>>

\* the metadata cache has taken in the frontmatter v and fires 'resolved'
OnResolved(v, files, enumerationFails) ==
    /\ plugin = "loaded"
    /\ vault' = v
    /\ lastIndex' = RebuildNovelIndex(lastIndex, v, files, enumerationFails)
    /\ scanned' = IF Rejects(v, files, enumerationFails) THEN scanned ELSE v
    /\ leaves' = [l \in Leaves |->
                    IF l \in Reached(lastIndex', leaves)
                    THEN RefreshAfterRebuild(lastIndex, lastIndex', leaves[l])
                    ELSE Unreached(leaves[l])]
    /\ lastEvent' = IF enumerationFails THEN "resolved-enumeration-failed"
                    ELSE IF Rejects(v, files, enumerationFails) THEN "resolved-failed"
                    ELSE IF \E l \in Leaves :
                                /\ leaves[l].file # None
                                /\ leaves[l].toolbar
                                /\ ResolveToolbarModeForFile(lastIndex', leaves[l].file)
                                     # ResolveToolbarModeForFile(lastIndex, leaves[l].file)
                    THEN "resolved-changed"
                    ELSE "resolved-published"
    /\ UNCHANGED <<plugin, bar, ui>>

OnActiveLeafChange(l, file) ==
    /\ plugin = "loaded"
    /\ leaves' = [k \in Leaves |->
                    IF k = l
                    THEN UpdateToolbarForLeaf(lastIndex, EnsureToolbar(ViewOf(leaves[l], file)))
                    ELSE Unreached(leaves[k])]
    /\ lastEvent' = "other"
    /\ UNCHANGED <<vault, lastIndex, scanned, plugin, bar, ui>>

OnLayoutChange(views) ==
    /\ plugin = "loaded"
    /\ LET seen == [l \in Leaves |-> EnsureToolbar(ViewOf(leaves[l], views[l]))]
       IN leaves' = [l \in Leaves |->
                        IF l \in Reached(lastIndex, seen)
                        THEN UpdateToolbarForLeaf(lastIndex, seen[l])
                        ELSE Unreached(leaves[l])]
    /\ lastEvent' = "other"
    /\ UNCHANGED <<vault, lastIndex, scanned, plugin, bar, ui>>

\* the book toolbar's ResizeObserver lays the toolbar out again from the book
\* the handler holds; it reads nothing from the indexer
OnResize(l) ==
    /\ plugin = "loaded"
    /\ leaves[l].handler = "book"
    /\ lastEvent' = "other"
    /\ UNCHANGED <<vault, lastIndex, scanned, plugin, leaves, bar, ui>>

Views == [Leaves -> Files \cup {None}]

Next ==
    \/ \E v \in BoundedEdits[vault] : EditFrontmatter(v)
    \/ \E files \in Enumerations, enumerationFails \in BOOLEAN : OnloadStart(files, enumerationFails)
    \/ \E views \in Views : OnloadResume(views)
    \/ \E v \in BoundedEdits[vault], files \in Enumerations : OnResolved(v, files, FALSE)
    \/ \E files \in Enumerations, enumerationFails \in BOOLEAN : OnResolved(vault, files, enumerationFails)
    \/ \E l \in Leaves, file \in Files \cup {None} : OnActiveLeafChange(l, file)
    \/ \E views \in Views : OnLayoutChange(views)
    \/ \E l \in Leaves : OnResize(l)

Spec == Init /\ [][Next]_vars

\* ------------------------------------------- the book toolbar on its own
\* The toolbars laid out: up to MaxButtons buttons of the widths below, and
\* ten buttons of one width.
ButtonWidths == {0, 8, 20}

OverflowWidths == {0, 14}

EqualWidths == {20, 40}

RECURSIVE WidthLists(_)
WidthLists(n) ==
    IF n = 0 THEN {<<>>}
    ELSE WidthLists(n - 1)
            \cup {Append(ws, w) : ws \in {l \in WidthLists(n - 1) : Len(l) = n - 1},
                                   w \in ButtonWidths}

TenEqualWidths == {[i \in 1..10 |-> w] : w \in EqualWidths}

Engines == {"BookToolbar", "TruncateMiddle"}

\* new BookToolbar(...) has built nothing; buildBookToolbarTruncateMiddle has
\* created the buttons and appended the overflow button after them
NewBar(engine, widths, ovrWidth) ==
    [NoBar EXCEPT !.engine = engine,
                  !.buttons = ChapterButtons(Len(widths)),
                  !.widths = widths,
                  !.ovrWidth = ovrWidth,
                  !.built = (engine = "TruncateMiddle"),
                  !.hidden = [i \in 1..Len(widths) |-> FALSE]]

\* the container widths a layout is asked for: widths around the sums of up to
\* MaxButtons button widths plus the buffer, and five and a half times a
\* button's width
SmallContainerWidths == {1, 9, 10, 18, 26, 30, 38, 46, 58, 70}

ContainerWidths(widths) ==
    SmallContainerWidths
        \cup {(11 * widths[i]) \div 2 : i \in {j \in 1..Len(widths) : widths[j] > 0}}

OverflowShown(b) == b.built /\ b.overflow # "hidden"

HiddenRange(b) == {i \in 1..Len(b.hidden) : b.hidden[i]}

Min(a, b) == IF a < b THEN a ELSE b

LayoutInit ==
    /\ bar \in {NewBar(engine, widths, ovrWidth) :
                    engine \in Engines,
                    widths \in WidthLists(MaxButtons) \cup TenEqualWidths,
                    ovrWidth \in OverflowWidths}
    /\ vault = EmptyVault
    /\ lastIndex = NoIndex
    /\ scanned = EmptyVault
    /\ plugin = "constructed"
    /\ leaves = [l \in Leaves |-> NoLeaf]
    /\ lastEvent = "other"
    /\ ui = NoUi

\* calculateSqueeze for the measurements the toolbar elements can have,
\* computed once
SqueezeTable ==
    [input \in {<<widths, ovrWidth, usableWidth>> :
                    widths \in UNION {[1..n -> {m.label : m \in Measures}] : n \in 0..MaxChapters},
                    ovrWidth \in {m.overflow : m \in Measures},
                    usableWidth \in {c.usableWidth : c \in Containers}}
        |-> CalculateSqueeze(input[1], input[2], input[3])]

\* variant: the squeeze counts the buttons that are hidden now as width 0
ApplyLayoutOfVisible(b, usableWidth) ==
    LET visible == [i \in 1..Len(b.widths) |-> IF b.hidden[i] THEN 0 ELSE b.widths[i]]
        squeeze == CalculateSqueeze(visible, b.ovrWidth, usableWidth)
    IN [b EXCEPT !.hidden = [i \in 1..Len(b.widths) |->
                                /\ squeeze.showOverflow
                                /\ squeeze.hideStart # Null
                                /\ squeeze.hideEnd # Null
                                /\ i - 1 >= squeeze.hideStart
                                /\ i - 1 <= squeeze.hideEnd],
                 !.overflow = IF squeeze.showOverflow THEN "shown" ELSE "hidden"]

ApplyLayout(b, usableWidth) ==
    LET input == <<b.widths, b.ovrWidth, usableWidth>>
        squeeze == IF input \in DOMAIN SqueezeTable THEN SqueezeTable[input]
                   ELSE CalculateSqueeze(b.widths, b.ovrWidth, usableWidth)
    IN [b EXCEPT !.hidden = [i \in 1..Len(b.widths) |->
                                /\ squeeze.showOverflow
                                /\ squeeze.hideStart # Null
                                /\ squeeze.hideEnd # Null
                                /\ i - 1 >= squeeze.hideStart
                                /\ i - 1 <= squeeze.hideEnd],
                 !.overflow = IF squeeze.showOverflow THEN "shown" ELSE "hidden"]

\* build: the buttons and the overflow button are created without is-hidden
Build(b) ==
    [b EXCEPT !.built = TRUE,
              !.hidden = [i \in 1..Len(b.widths) |-> FALSE],
              !.overflow = "unstyled"]

\* BookToolbar.refresh with the style sentinel ready and a usable width > 0
Refresh(usableWidth) ==
    /\ bar.engine = "BookToolbar"
    /\ bar' = [ApplyLayout(IF bar.built THEN bar ELSE Build(bar), usableWidth)
                    EXCEPT !.containerWidth = usableWidth,
                           !.repeated = (bar.layouts >= 1 /\ usableWidth = bar.containerWidth),
                           !.layouts = Min(bar.layouts + 1, 2),
                           !.menu = <<>>, !.chosen = NoItem, !.opened = None,
                           !.event = "layout"]
    /\ UNCHANGED <<vault, lastIndex, scanned, plugin, leaves, lastEvent, ui>>

\* the ResizeObserver callback of buildBookToolbarTruncateMiddle
RunLayout(containerWidth) ==
    /\ bar.engine = "TruncateMiddle"
    /\ ~bar.hung
    /\ LET range == RunLayoutRange(bar.widths, bar.ovrWidth, containerWidth)
           laidOut == [bar EXCEPT !.containerWidth = containerWidth,
                                  !.repeated = (bar.layouts >= 1
                                                    /\ containerWidth = bar.containerWidth),
                                  !.layouts = Min(bar.layouts + 1, 2),
                                  !.menu = <<>>, !.chosen = NoItem, !.opened = None,
                                  !.event = "layout"]
       IN bar' = IF range.hangs THEN [laidOut EXCEPT !.hung = TRUE]
                 ELSE IF range.start # bar.lastRange.start \/ range.end # bar.lastRange.end
                 THEN [laidOut EXCEPT
                         !.lastRange = [start |-> range.start, end |-> range.end],
                         !.hidden = [i \in 1..Len(bar.widths) |->
                                        i - 1 >= range.start /\ i - 1 <= range.end],
                         !.overflow = IF range.start # Null THEN "shown" ELSE "hidden"]
                 ELSE laidOut
    /\ UNCHANGED <<vault, lastIndex, scanned, plugin, leaves, lastEvent, ui>>

\* variant: the menu lists every chapter button
SetupMenuOfAll(b) ==
    [k \in 1..Len(b.buttons) |-> [title |-> b.buttons[k].ariaLabel, button |-> k]]

\* the overflow button's click listener: one item per button with is-hidden
SetupMenu(b) ==
    LET hiddenElements == SelectSeq([i \in 1..Len(b.buttons) |-> i], LAMBDA i : b.hidden[i])
    IN [k \in 1..Len(hiddenElements) |->
            [title |-> b.buttons[hiddenElements[k]].ariaLabel, button |-> hiddenElements[k]]]

\* handleControlsClick / the button's own listener: open the button's document
ClickButton(b, i) == b.buttons[i].path

ClickOverflow ==
    /\ OverflowShown(bar)
    /\ ~bar.hung
    /\ bar.engine = "BookToolbar" => SplitIndex(bar.widths) < Len(bar.widths)
    /\ bar' = [bar EXCEPT !.menu = SetupMenu(bar), !.chosen = NoItem, !.opened = None,
                          !.event = "menu"]
    /\ UNCHANGED <<vault, lastIndex, scanned, plugin, leaves, lastEvent, ui>>

ChooseItem(k) ==
    /\ ~bar.hung
    /\ bar.event = "menu"
    /\ k \in 1..Len(bar.menu)
    /\ bar' = [bar EXCEPT !.opened = ClickButton(bar, bar.menu[k].button),
                          !.chosen = bar.menu[k],
                          !.menu = <<>>,
                          !.event = "item"]
    /\ UNCHANGED <<vault, lastIndex, scanned, plugin, leaves, lastEvent, ui>>

ClickChapterButton(i) ==
    /\ ~bar.hung
    /\ bar.built
    /\ i \in 1..Len(bar.buttons)
    /\ ~bar.hidden[i]
    /\ bar' = [bar EXCEPT !.opened = ClickButton(bar, i), !.menu = <<>>, !.chosen = NoItem,
                          !.event = "button"]
    /\ UNCHANGED <<vault, lastIndex, scanned, plugin, leaves, lastEvent, ui>>

LayoutNext ==
    \/ \E usableWidth \in ContainerWidths(bar.widths) : Refresh(usableWidth)
    \/ \E containerWidth \in ContainerWidths(bar.widths) : RunLayout(containerWidth)
    \/ ClickOverflow
    \/ \E k \in 1..MaxButtons + 10 : ChooseItem(k)
    \/ \E i \in 1..MaxButtons + 10 : ClickChapterButton(i)

LayoutSpec == LayoutInit /\ [][LayoutNext]_vars

\* ------------------------------------ the toolbar elements and their handlers
\* The panes' toolbar elements under updateToolbarForLeaf, resize
\* notifications and animation frames, over a published index that stays.
ToolbarVault == [SharedChapterVault EXCEPT ![2].chapters = <<4>>]

ToolbarIndex == BuildIndex(ToolbarVault, Ascending)

BookDocuments == {f \in Files : MapHas(ToolbarIndex.books, f)}

ToolbarBooks == {MapGet(ToolbarIndex.books, f) : f \in BookDocuments}

OnePane == {1}

IsReady(container) == container.cssReady /\ container.usableWidth > 0

\* what getComputedStyle and getBoundingClientRect give for the BookToolbar's
\* container: an element that is no longer in the document has no computed
\* style and no width
ContainerOf(pane) ==
    IF pane.toolbar.element = pane.element THEN pane.container ELSE NoContainer

GetBookSignature(book) ==
    <<book.file, Len(book.chapters)>> \o [i \in 1..Len(book.chapters) |-> book.chapters[i].file]

RECURSIVE RequiredLabelsFrom(_, _, _)
RequiredLabelsFrom(chapters, i, chapterCounter) ==
    IF i > Len(chapters) THEN <<>>
    ELSE IF chapters[i].kind = "chapter"
    THEN <<[word |-> "", n |-> chapterCounter + 1]>>
            \o RequiredLabelsFrom(chapters, i + 1, chapterCounter + 1)
    ELSE <<chapters[i].chapterLabel>> \o RequiredLabelsFrom(chapters, i + 1, chapterCounter)

GetRequiredLabels(book) == RequiredLabelsFrom(book.chapters, 1, 0)

\* (a CHOOSE over a one-element set names an intermediate value once)
RECURSIVE SetLabels(_, _, _)
SetLabels(cache, labels, width) ==
    IF labels = <<>> THEN cache
    ELSE CHOOSE after \in {SetLabels(next, Tail(labels), width) :
                              next \in {MapSet(cache, Head(labels), width)}} : TRUE

\* variant: every label of the book is measured again
MeasureAllLabels(cache, labels, m) ==
    MapSet(SetLabels(cache, labels, m.label), OverflowLabel, m.overflow)

MeasureMissingLabels(cache, labels, m) ==
    LET missing == SelectSeq(labels, LAMBDA label : ~MapHas(cache, label))
        measured == SetLabels(cache, missing, m.label)
    IN IF MapHas(measured, OverflowLabel) THEN measured
       ELSE MapSet(measured, OverflowLabel, m.overflow)

\* variant: the callback is never run
RequestAnimationFrameDropped(frames, callback) == frames

\* window.requestAnimationFrame(callback): callbacks run in the order given
RequestAnimationFrame(frames, callback) == Append(frames, callback)

\* refresh from the signature check on, the labels measured into cache
BuildAndLayOut(u, p, book, cache) ==
    LET pane == u.panes[p]
        signature == GetBookSignature(book)
        rebuild == signature # pane.toolbar.lastSignature
        labels == GetRequiredLabels(book)
        built == IF rebuild
                 THEN Build([pane.toolbar EXCEPT !.lastSignature = signature,
                                                 !.labels = labels,
                                                 !.widths = [i \in 1..Len(labels) |->
                                                                MapGet(cache, labels[i])]])
                 ELSE pane.toolbar
        measured == [built EXCEPT !.widths = [i \in 1..Len(built.labels) |->
                                                MapGet(cache, built.labels[i])],
                                  !.ovrWidth = MapGet(cache, OverflowLabel)]
        laidOut == CHOOSE after \in {ApplyLayout(b, pane.container.usableWidth) :
                                        b \in {measured}} : TRUE
    IN [u EXCEPT !.labelCache = cache,
                 !.panes[p].toolbar = laidOut,
                 !.panes[p].content = IF rebuild
                                      THEN [kind |-> "book", signature |-> signature]
                                      ELSE pane.content]

\* BookToolbar.refresh(book) of pane p's toolbar
RefreshBook(u, p, book, m) ==
    LET pane == u.panes[p]
        held == [u EXCEPT !.panes[p].toolbar.currentBook = book]
    IN IF ~ContainerOf(pane).cssReady \/ ContainerOf(pane).usableWidth <= 0
       THEN [held EXCEPT !.frames = RequestAnimationFrame(u.frames, [pane |-> p, book |-> book])]
       ELSE CHOOSE after \in
                {BuildAndLayOut(current, p, book, cache) :
                    current \in {held},
                    cache \in {IF GetBookSignature(book) # pane.toolbar.lastSignature
                               THEN MeasureMissingLabels(u.labelCache,
                                                         GetRequiredLabels(book), m)
                               ELSE u.labelCache}} : TRUE

\* the layouts a handler applies when it calls refresh for the given callbacks
Applied(u, callbacks) ==
    {<<callbacks[i].pane, GetBookSignature(callbacks[i].book)>> :
        i \in {j \in 1..Len(callbacks) : IsReady(ContainerOf(u.panes[callbacks[j].pane]))}}

\* one pane, its toolbar element injected
ToolbarInit ==
    /\ ui \in {[NoUi EXCEPT !.panes = [p \in OnePane |-> [InjectedPane EXCEPT !.container = c]]] :
                    c \in Containers}
    /\ vault = ToolbarVault
    /\ lastIndex = ToolbarIndex
    /\ scanned = ToolbarVault
    /\ plugin = "loaded"
    /\ leaves = [l \in Leaves |-> NoLeaf]
    /\ lastEvent = "other"
    /\ bar = NoBar

\* handlers.set(leaf, handler): a key that is in the map keeps its place
Register(registered, p) ==
    IF \E i \in 1..Len(registered) : registered[i] = p THEN registered
    ELSE Append(registered, p)

\* updateToolbarForLeaf under the published index, for pane p, whose view
\* shows the document file
UpdatePane(u, index, p, file, m) ==
    LET mode == ResolveToolbarModeForFile(index, file)
        pane == u.panes[p]
        found == pane.element # None
        handler == SwitchHandler(pane.handler, mode.kind)
        threw == found /\ mode.kind = "book-info" /\ DestroyThrows(pane.handler)
        constructs == handler # pane.handler
        bound == IF constructs THEN pane.element ELSE pane.bound
        book == IF found /\ mode.kind = "book-info"
                THEN MapGet(index.books, mode.book) ELSE NoBook
        event == [kind |-> "update", pane |-> p, document |-> file, threw |-> threw,
                  book |-> IF threw THEN NoBook ELSE book,
                  applied |-> IF found /\ mode.kind = "book-info" /\ ~threw
                              THEN Applied([u EXCEPT !.panes[p].toolbar.element = bound],
                                           <<[pane |-> p, book |-> book]>>)
                              ELSE {}]
    IN [(CASE ~found -> u
           [] found /\ mode.kind = "none" ->
                [u EXCEPT !.panes[p].content = [kind |-> "text", signature |-> NoSignature]]
           [] found /\ mode.kind = "book-info" /\ threw -> u
           [] found /\ mode.kind = "book-info" /\ ~threw ->
                RefreshBook([u EXCEPT !.panes[p].handler = handler,
                                      !.panes[p].bound = bound,
                                      !.panes[p].toolbar =
                                         IF pane.handler = "book" THEN pane.toolbar
                                         ELSE [NewBookToolbar EXCEPT !.element = pane.element],
                                      !.panes[p].requested = book,
                                      !.registered = Register(u.registered, p)],
                            p, book, m)
           [] found /\ mode.kind = "chapter-stage" ->
                [u EXCEPT !.panes[p].handler = handler,
                          !.panes[p].bound = bound,
                          !.panes[p].toolbar.observing =
                             IF pane.handler = "book" THEN FALSE
                             ELSE pane.toolbar.observing,
                          !.panes[p].content =
                             IF bound = pane.element
                             THEN [kind |-> "chapter", signature |-> NoSignature]
                             ELSE pane.content,
                          !.registered = Register(u.registered, p)])
          EXCEPT !.event = event]

UpdateToolbarForPane(p, file, m) ==
    /\ ui' = UpdatePane(ui, lastIndex, p, file, m)
    /\ Len(ui'.frames) <= MaxFrames
    /\ UNCHANGED <<vault, lastIndex, scanned, plugin, leaves, lastEvent, bar>>

\* the container is styled or resized
ContainerChanges(p, c) ==
    /\ c # ui.panes[p].container
    /\ ui' = [ui EXCEPT !.panes[p].container = c,
                        !.event = [NoEvent EXCEPT !.kind = "container", !.pane = p]]
    /\ UNCHANGED <<vault, lastIndex, scanned, plugin, leaves, lastEvent, bar>>

\* the ResizeObserver callback of pane p's BookToolbar
ResizeObserved(p, m) ==
    LET pane == ui.panes[p]
        refreshes == ContainerOf(pane).usableWidth > 0 /\ pane.toolbar.currentBook # NoBook
        event == [kind |-> "resize", pane |-> p, document |-> None, threw |-> FALSE,
                  book |-> IF refreshes THEN pane.toolbar.currentBook ELSE NoBook,
                  applied |-> IF refreshes
                              THEN Applied(ui, <<[pane |-> p, book |-> pane.toolbar.currentBook]>>)
                              ELSE {}]
    IN /\ pane.toolbar.created
       /\ pane.toolbar.observing
       /\ ui' = [(IF refreshes THEN RefreshBook(ui, p, pane.toolbar.currentBook, m) ELSE ui)
                    EXCEPT !.event = event]
       /\ Len(ui'.frames) <= MaxFrames
       /\ UNCHANGED <<vault, lastIndex, scanned, plugin, leaves, lastEvent, bar>>

RECURSIVE RunCallbacks(_, _, _)
RunCallbacks(u, callbacks, m) ==
    IF callbacks = <<>> THEN u
    ELSE CHOOSE after \in {RunCallbacks(next, Tail(callbacks), m) :
                              next \in {RefreshBook(u, Head(callbacks).pane,
                                                    Head(callbacks).book, m)}} : TRUE

\* an animation frame: the callbacks requested before it run in their order;
\* what they request runs in a later frame
AnimationFrame(m) ==
    /\ ui.frames # <<>>
    /\ ui' = [RunCallbacks([ui EXCEPT !.frames = <<>>], ui.frames, m)
                EXCEPT !.event = [NoEvent EXCEPT !.kind = "frame",
                                                 !.applied = Applied(ui, ui.frames)]]
    /\ UNCHANGED <<vault, lastIndex, scanned, plugin, leaves, lastEvent, bar>>

ToolbarNext ==
    \/ \E p \in DOMAIN ui.panes, file \in Files, m \in Measures : UpdateToolbarForPane(p, file, m)
    \/ \E p \in DOMAIN ui.panes, c \in Containers : ContainerChanges(p, c)
    \/ \E p \in DOMAIN ui.panes, m \in Measures : ResizeObserved(p, m)
    \/ \E m \in Measures : AnimationFrame(m)

ToolbarSpec == ToolbarInit /\ [][ToolbarNext]_vars

\* animation frames are delivered while callbacks are pending
FairToolbarSpec == ToolbarSpec /\ WF_vars(\E m \in Measures : AnimationFrame(m))

\* ------------------------------------------- several book toolbars at once
\* NPanes panes that show book documents, each with a BookToolbar of its own.
StyledContainers == {c \in Containers : c.cssReady}

InstancesInit ==
    /\ ui \in {[NoUi EXCEPT !.panes = [p \in Panes |-> [InjectedPane EXCEPT !.container = c]]] :
                    c \in StyledContainers}
    /\ vault = ToolbarVault
    /\ lastIndex = ToolbarIndex
    /\ scanned = ToolbarVault
    /\ plugin = "loaded"
    /\ leaves = [l \in Leaves |-> NoLeaf]
    /\ lastEvent = "other"
    /\ bar = NoBar

InstancesNext ==
    \/ \E p \in Panes, file \in BookDocuments, m \in Measures : UpdateToolbarForPane(p, file, m)
    \/ \E p \in Panes, c \in StyledContainers : ContainerChanges(p, c)
    \/ \E p \in Panes, m \in Measures : ResizeObserved(p, m)
    \/ \E m \in Measures : AnimationFrame(m)

InstancesSpec == InstancesInit /\ [][InstancesNext]_vars

\* ------------------------------------------- the views and their elements
\* One view under active-leaf-change, 'resolved', replacement of the view's
\* DOM and onunload, with a styled container and an index that is rebuilt.
\* (book 1 of ToolbarVault with its first chapter declared as the prologue)
KindVault == [ToolbarVault EXCEPT ![1] = BookDocument(3, <<4>>, NoLink)]

ViewVaults == {ToolbarVault, KindVault}

ViewIndex == [v \in ViewVaults |-> BuildIndex(v, Ascending)]

ViewMeasures == {m \in Measures : m.label = 8}

\* the documents a view shows: a book, one of its chapters, a plain note
ViewFiles == {1, 3, 5}

\* ensureToolbar: a tracked element that is still in the view is kept,
\* otherwise injectToolbar creates the next element with the stub text
EnsureToolbarOf(u, p) ==
    LET pane == u.panes[p]
    IN IF pane.tracked # None /\ pane.tracked = pane.element THEN u
       ELSE [u EXCEPT !.panes[p].element = pane.tracked + 1,
                      !.panes[p].tracked = pane.tracked + 1,
                      !.panes[p].content = Stub]

\* views without a toolbar element yet, their containers styled and laid out
ViewsOf(panes) ==
    [NoUi EXCEPT !.panes = [p \in panes |->
        [NoPane EXCEPT !.container = [cssReady |-> TRUE, usableWidth |-> 30]]]]

ViewInit ==
    /\ ui = ViewsOf(OnePane)
    /\ vault = ToolbarVault
    /\ lastIndex = ViewIndex[ToolbarVault]
    /\ scanned = ToolbarVault
    /\ plugin = "loaded"
    /\ leaves = [l \in Leaves |-> NoLeaf]
    /\ lastEvent = "other"
    /\ bar = NoBar

\* active-leaf-change for the leaf of pane p, whose view shows the document
\* file: ensureToolbar, then updateToolbarForLeaf
LeafShown(p, file, m) ==
    /\ ui.loaded
    /\ ui' = [UpdatePane([EnsureToolbarOf(ui, p) EXCEPT !.panes[p].file = file],
                         lastIndex, p, file, m)
                EXCEPT !.event.kind = "shown"]
    /\ Len(ui'.frames) <= MaxFrames
    /\ UNCHANGED <<vault, lastIndex, scanned, plugin, leaves, lastEvent, bar>>

\* the view's DOM is replaced: the injected element is no longer in the view
DomReplaced(p) ==
    /\ ui.loaded
    /\ ui.panes[p].element # None
    /\ ui.panes[p].tracked < MaxElements
    /\ ui' = [ui EXCEPT !.panes[p].element = None,
                        !.panes[p].content = Absent,
                        !.event = [NoEvent EXCEPT !.kind = "dom", !.pane = p]]
    /\ UNCHANGED <<vault, lastIndex, scanned, plugin, leaves, lastEvent, bar>>

\* iterateAllLeaves(updateToolbarForLeaf) from pane p on: a view without a
\* file is passed over, and an update that throws ends the iteration
RECURSIVE UpdateAll(_, _, _, _)
UpdateAll(u, index, p, m) ==
    IF p > Len(u.panes) THEN u
    ELSE IF u.panes[p].file = None THEN UpdateAll(u, index, p + 1, m)
    ELSE CHOOSE after \in
            {IF next.event.threw THEN next ELSE UpdateAll(next, index, p + 1, m) :
                next \in {UpdatePane(u, index, p, u.panes[p].file, m)}} : TRUE

\* the 'resolved' handler: the index is rebuilt from the frontmatter v, then
\* every leaf's toolbar is updated
Resolved(v, m) ==
    /\ ui.loaded
    /\ vault' = v
    /\ scanned' = v
    /\ lastIndex' = ViewIndex[v]
    /\ ui' = [UpdateAll(ui, ViewIndex[v], 1, m) EXCEPT !.event.kind = "resolved"]
    /\ Len(ui'.frames) <= MaxFrames
    /\ UNCHANGED <<plugin, leaves, lastEvent, bar>>

\* handlers.forEach(handler => handler.destroy()): the panes whose handler is
\* destroyed before the call throws, and whether it throws
DestroyedBy(u) ==
    LET throwing == {i \in 1..Len(u.registered) : DestroyThrows(u.panes[u.registered[i]].handler)}
    IN [panes |-> {u.registered[i] : i \in {j \in 1..Len(u.registered) :
                                                \A k \in throwing : j < k}},
        threw |-> throwing # {}]

\* onunload: the handlers are destroyed and forgotten, then the tracked
\* elements are removed and forgotten; an exception ends it where it is raised
Onunload ==
    /\ ui.loaded
    /\ LET destroyed == DestroyedBy(ui)
       IN ui' = [ui EXCEPT
                    !.loaded = FALSE,
                    !.registered = IF destroyed.threw THEN @ ELSE <<>>,
                    !.event = [NoEvent EXCEPT !.kind = "unload", !.threw = destroyed.threw],
                    !.panes = [p \in DOMAIN @ |->
                        [@[p] EXCEPT
                            !.toolbar.observing =
                                IF p \in destroyed.panes /\ ui.panes[p].handler = "book"
                                THEN FALSE ELSE @,
                            !.handler = IF destroyed.threw THEN @ ELSE "none",
                            !.bound = IF destroyed.threw THEN @ ELSE None,
                            !.element = IF destroyed.threw \/ @ # ui.panes[p].tracked
                                        THEN @ ELSE None,
                            !.content = IF destroyed.threw
                                            \/ ui.panes[p].element # ui.panes[p].tracked
                                            \/ ui.panes[p].element = None
                                        THEN @ ELSE Absent,
                            !.tracked = IF destroyed.threw THEN @ ELSE None]]]
    /\ UNCHANGED <<vault, lastIndex, scanned, plugin, leaves, lastEvent, bar>>

ViewNext ==
    \/ \E p \in DOMAIN ui.panes, file \in ViewFiles, m \in ViewMeasures : LeafShown(p, file, m)
    \/ \E p \in DOMAIN ui.panes : DomReplaced(p)
    \/ \E v \in ViewVaults, m \in ViewMeasures : Resolved(v, m)
    \/ \E p \in DOMAIN ui.panes, m \in ViewMeasures : ResizeObserved(p, m)
    \/ \E m \in ViewMeasures : AnimationFrame(m)
    \/ Onunload

ViewSpec == ViewInit /\ [][ViewNext]_vars

\* NPanes views whose leaves become active, and the plugin's unloading
UnloadInit ==
    /\ ui = ViewsOf(Panes)
    /\ vault = ToolbarVault
    /\ lastIndex = ViewIndex[ToolbarVault]
    /\ scanned = ToolbarVault
    /\ plugin = "loaded"
    /\ leaves = [l \in Leaves |-> NoLeaf]
    /\ lastEvent = "other"
    /\ bar = NoBar

UnloadNext ==
    \/ \E p \in Panes, file \in ViewFiles, m \in ViewMeasures : LeafShown(p, file, m)
    \/ \E p \in Panes, m \in ViewMeasures : ResizeObserved(p, m)
    \/ Onunload

UnloadSpec == UnloadInit /\ [][UnloadNext]_vars

\* ------------------------------------------------- buildIndex on its own
\* buildIndex over the vaults one frontmatter edit away from: a book with a
\* title and an empty chapter list beside a document with a chapter list and
\* no title and a document whose prologue is not a string; two outlined
\* chapters; two books that share a chapter.
IndexVaults ==
    WithinEdits({[EmptyVault EXCEPT ![1] = BookDocument(NoLink, <<>>, NoLink),
                                    ![2].chaptersIsArray = TRUE,
                                    ![3].prologue = NonStringLink],
                 OutlinedVault, SharedChapterVault}, 1)

IndexInit ==
    /\ vault \in IndexVaults
    /\ lastIndex = NoIndex
    /\ scanned = EmptyVault
    /\ plugin = "loaded"
    /\ leaves = [l \in Leaves |-> NoLeaf]
    /\ lastEvent = "other"
    /\ bar = NoBar
    /\ ui = NoUi

\* buildIndex() with getMarkdownFiles() giving files: the snapshot is
\* published at the end, or the call rejects and the old one is kept
BuildIndexCalled(files) ==
    /\ lastIndex' = IF BuildIndexThrows(vault, files, FALSE) THEN lastIndex
                    ELSE BuildIndex(vault, files)
    /\ scanned' = IF BuildIndexThrows(vault, files, FALSE) THEN scanned ELSE vault
    /\ lastEvent' = IF BuildIndexThrows(vault, files, FALSE) THEN "build-failed" ELSE "built"
    /\ UNCHANGED <<vault, plugin, leaves, bar, ui>>

IndexSpec == IndexInit /\ [][\E files \in Enumerations : BuildIndexCalled(files)]_vars

\* ================================================================ claims
Resolves(link) == link \in Files

StageKinds == {"outline", "draft", "final"}

BookFiles == DOMAIN lastIndex.books.val

Entries(b) == lastIndex.books.val[b].chapters

\* the documents that resolve to a chapter-stage mode, and what they resolve to
StageDocuments == {f \in Files : ResolveToolbarModeForFile(lastIndex, f).kind = "chapter-stage"}

StageOf(f) == ResolveToolbarModeForFile(lastIndex, f).stage

OwnerOf(f) == Entries(StageOf(f).chapter.book)[StageOf(f).chapter.index + 1]

TargetsOf(f) == GetNavigationTargets(lastIndex, StageOf(f))

ShownLeaves == {l \in Leaves : leaves[l].file # None /\ leaves[l].toolbar}

\* the target the neighbour at 0-based position j of a sequence gives for a kind
NeighbourTarget(seq, j, kind) ==
    IF j >= 0 /\ j < Len(seq) /\ seq[j + 1][kind] # None
    THEN [kind |-> "file", file |-> seq[j + 1][kind]]
    ELSE [kind |-> "disabled", file |-> None]

\* C1: previous / next of a resolved stage is the neighbouring entry's document
\* of the same stage kind, and disabled when there is no neighbour at that
\* position or the neighbour has no document of that kind.
C1_AdjacentSameStage ==
    \A f \in StageDocuments :
        LET seq == Entries(StageOf(f).chapter.book)
            i == OwnerOf(f).index
        IN /\ seq[i + 1] = OwnerOf(f)
           /\ TargetsOf(f).previous = NeighbourTarget(seq, i - 1, StageOf(f).stage)
           /\ TargetsOf(f).next = NeighbourTarget(seq, i + 1, StageOf(f).stage)
           /\ (i = 0 => TargetsOf(f).previous.kind = "disabled")
           /\ (i = Len(seq) - 1 => TargetsOf(f).next.kind = "disabled")

\* a leaf shows the draft of a middle chapter whose neighbours have no draft
C1_Witness ==
    \E l \in ShownLeaves :
        /\ leaves[l].mode.kind = "chapter-stage"
        /\ leaves[l].mode.stage.stage = "draft"
        /\ leaves[l].mode.stage.chapter.index = 1
        /\ Len(Entries(leaves[l].mode.stage.chapter.book)) = 3
        /\ leaves[l].mode = ResolveToolbarModeForFile(lastIndex, leaves[l].file)
        /\ leaves[l].targets.previous.kind = "disabled"
        /\ leaves[l].targets.next.kind = "disabled"

\* C2: resolveToolbarModeForFile answers by table membership, stage table
\* first, then chapter table (a synthesized info stage), then book table.
C2_ResolutionOrder ==
    \A f \in Files :
        LET mode == ResolveToolbarModeForFile(lastIndex, f)
        IN IF f \in DOMAIN lastIndex.stages.val
           THEN mode.kind = "chapter-stage" /\ mode.stage = lastIndex.stages.val[f]
           ELSE IF f \in DOMAIN lastIndex.chapters.val
           THEN /\ mode.kind = "chapter-stage"
                /\ mode.stage = [chapter |-> lastIndex.chapters.val[f], stage |-> "info", file |-> f]
           ELSE IF f \in DOMAIN lastIndex.books.val
           THEN mode.kind = "book-info" /\ mode.book = f
           ELSE mode.kind = "none"

\* a leaf shows a document that is in the stage table and in the chapter table
C2_Witness ==
    \E l \in ShownLeaves :
        /\ leaves[l].file \in DOMAIN lastIndex.stages.val
        /\ leaves[l].file \in DOMAIN lastIndex.chapters.val
        /\ leaves[l].mode.kind = "chapter-stage"
        /\ leaves[l].mode.stage.stage # "info"
        /\ leaves[l].mode = ResolveToolbarModeForFile(lastIndex, leaves[l].file)

NumberedUpTo(seq, i) == Cardinality({j \in 1..i : seq[j].kind = "chapter"})

\* C3: in every book of a published index the entries of kind chapter are
\* numbered 1, 2, ... in order and labelled "Chapter n"; prologue and epilogue
\* entries have no number and the labels "Prologue" and "Epilogue".
C3_ChapterNumbering ==
    \A b \in BookFiles : \A i \in 1..Len(Entries(b)) :
        LET c == Entries(b)[i]
        IN /\ c.kind = "chapter" =>
                /\ c.chapterNumber = NumberedUpTo(Entries(b), i)
                /\ c.chapterLabel = [word |-> "Chapter", n |-> c.chapterNumber]
           /\ c.kind = "prologue" =>
                c.chapterNumber = None /\ c.chapterLabel = [word |-> "Prologue", n |-> None]
           /\ c.kind = "epilogue" =>
                c.chapterNumber = None /\ c.chapterLabel = [word |-> "Epilogue", n |-> None]
           /\ c.kind \in {"prologue", "chapter", "epilogue"}

\* a published book of four entries: prologue, Chapter 1, Chapter 2, epilogue
C3_Witness ==
    \E b \in BookFiles :
        /\ Len(Entries(b)) = 4
        /\ Entries(b)[1].kind = "prologue"
        /\ Entries(b)[2].chapterNumber = 1
        /\ Entries(b)[3].chapterNumber = 2
        /\ Entries(b)[4].kind = "epilogue"

ResolvedCount(links) == Cardinality({i \in 1..Len(links) : Resolves(links[i])})

\* C4: in a published index every entry's index is its array offset and its
\* book is the owning book, and a book has one entry per resolved prologue,
\* chapter and epilogue reference.
C4_PositionalIndex ==
    \A b \in BookFiles :
        /\ \A i \in 1..Len(Entries(b)) :
                Entries(b)[i].index = i - 1 /\ Entries(b)[i].book = b
        /\ lastIndex.books.val[b].file = b
        /\ Len(Entries(b)) = (IF Resolves(scanned[b].prologue) THEN 1 ELSE 0)
                             + ResolvedCount(scanned[b].chapters)
                             + (IF Resolves(scanned[b].epilogue) THEN 1 ELSE 0)

\* a book with a prologue, an epilogue and a chapter reference that does not resolve
C4_Witness ==
    \E b \in BookFiles :
        /\ Resolves(scanned[b].prologue)
        /\ Resolves(scanned[b].epilogue)
        /\ ResolvedCount(scanned[b].chapters) < Len(scanned[b].chapters)
        /\ Len(Entries(b)) >= 3

ResolvedLinks(links) == SelectSeq(links, Resolves)

DeclaredSequence(fm) ==
    (IF Resolves(fm.prologue) THEN <<fm.prologue>> ELSE <<>>)
    \o ResolvedLinks(fm.chapters)
    \o (IF Resolves(fm.epilogue) THEN <<fm.epilogue>> ELSE <<>>)

\* C5: a book's sequence is the resolved prologue, the resolved chapter
\* references in declared order, the resolved epilogue; an entry of kind
\* prologue only at position 0, one of kind epilogue only at the last position;
\* book.prologue / book.epilogue set exactly when the reference resolved.
C5_PrologueFirstEpilogueLast ==
    \A b \in BookFiles :
        /\ [i \in 1..Len(Entries(b)) |-> Entries(b)[i].file] = DeclaredSequence(scanned[b])
        /\ \A i \in 1..Len(Entries(b)) :
                /\ Entries(b)[i].kind = "prologue" => i = 1
                /\ Entries(b)[i].kind = "epilogue" => i = Len(Entries(b))
        /\ (lastIndex.books.val[b].prologue # None) <=> Resolves(scanned[b].prologue)
        /\ (lastIndex.books.val[b].epilogue # None) <=> Resolves(scanned[b].epilogue)

\* C6: the outline, draft and final targets of a resolved stage are the
\* documents the owning chapter's references resolved to (disabled when a
\* reference did not resolve), chapterInfo is the chapter's document and
\* bookInfo the book's document, whatever the stage's own kind.
ReferenceTarget(link) ==
    IF Resolves(link) THEN [kind |-> "file", file |-> link] ELSE [kind |-> "disabled", file |-> None]

C6_StageTargets ==
    \A f \in StageDocuments :
        LET c == OwnerOf(f)
        IN /\ TargetsOf(f).outline = ReferenceTarget(scanned[c.file].chapter_outline)
           /\ TargetsOf(f).draft = ReferenceTarget(scanned[c.file].chapter_draft)
           /\ TargetsOf(f).final = ReferenceTarget(scanned[c.file].chapter_final)
           /\ TargetsOf(f).chapterInfo = [kind |-> "file", file |-> c.file]
           /\ TargetsOf(f).bookInfo = [kind |-> "file", file |-> StageOf(f).chapter.book]
           /\ StageOf(f).chapter.book \in BookFiles

\* a leaf shows a draft document: draft enabled, outline and final disabled
C6_Witness ==
    \E l \in ShownLeaves :
        /\ leaves[l].mode.kind = "chapter-stage"
        /\ leaves[l].mode.stage.stage = "draft"
        /\ leaves[l].targets = TargetsOf(leaves[l].file)
        /\ leaves[l].targets.draft = [kind |-> "file", file |-> leaves[l].file]
        /\ leaves[l].targets.outline.kind = "disabled"
        /\ leaves[l].targets.final.kind = "disabled"
        /\ leaves[l].targets.chapterInfo.kind = "file"
        /\ leaves[l].targets.bookInfo.kind = "file"

\* the (entry, kind) pairs of the constructed entries whose reference resolved to d
PairsFor(d) ==
    {p \in [book : BookFiles, index : 0..(MaxChapters + 2), stage : StageKinds] :
        /\ p.index < Len(Entries(p.book))
        /\ Entries(p.book)[p.index + 1][p.stage] = d}

StageDocumentsOfEntries ==
    {d \in Files : PairsFor(d) # {}}

\* C7 as claimed: every constructed entry and kind whose reference resolved to
\* d is the stage table's entry for d; no other entries.
C7_EveryPairRegistered ==
    /\ \A d \in StageDocumentsOfEntries : \A p \in PairsFor(d) :
            /\ d \in DOMAIN lastIndex.stages.val
            /\ lastIndex.stages.val[d] =
                  [file |-> d, chapter |-> [book |-> p.book, index |-> p.index], stage |-> p.stage]
    /\ DOMAIN lastIndex.stages.val = StageDocumentsOfEntries

\* C7 as amended: every document that some constructed entry's outline, draft
\* or final reference resolved to has exactly one stage entry, which is one of
\* the pairs that resolved to it, with the chapter being the entry registered
\* in the chapter table; it is the pair itself when no other pair resolves to
\* the document. There is no entry of kind info and no entry without a pair.
C7_StageTable ==
    /\ DOMAIN lastIndex.stages.val = StageDocumentsOfEntries
    /\ \A d \in DOMAIN lastIndex.stages.val :
        LET e == lastIndex.stages.val[d]
        IN /\ e.file = d
           /\ e.stage \in StageKinds
           /\ [book |-> e.chapter.book, index |-> e.chapter.index, stage |-> e.stage] \in PairsFor(d)
           /\ lastIndex.chapters.val[Entries(e.chapter.book)[e.chapter.index + 1].file] = e.chapter
           /\ Cardinality(PairsFor(d)) = 1 =>
                \A p \in PairsFor(d) :
                    e = [file |-> d, chapter |-> [book |-> p.book, index |-> p.index], stage |-> p.stage]
    /\ Len(lastIndex.stages.keys) = Cardinality(DOMAIN lastIndex.stages.val)

\* two pairs resolved to one document and the stage table holds one of them,
\* next to a document with a single pair
C7_Witness ==
    /\ \E d \in DOMAIN lastIndex.stages.val : Cardinality(PairsFor(d)) >= 2
    /\ \E d \in DOMAIN lastIndex.stages.val : Cardinality(PairsFor(d)) = 1

InNoTable(f) ==
    /\ f \notin DOMAIN lastIndex.stages.val
    /\ f \notin DOMAIN lastIndex.chapters.val
    /\ f \notin DOMAIN lastIndex.books.val

\* C8: resolveToolbarModeForFile answers for every document in every indexer
\* state with a mode of kind none, book-info or chapter-stage; none when no
\* index was built and when the document is in no table.
C8_ResolveTotal ==
    \A f \in Files :
        LET mode == ResolveToolbarModeForFile(lastIndex, f)
        IN /\ mode.kind \in {"none", "book-info", "chapter-stage"}
           /\ ~lastIndex.built => mode.kind = "none"
           /\ InNoTable(f) => mode.kind = "none"
           /\ mode.kind = "book-info" => mode.book \in BookFiles
           /\ mode.kind = "chapter-stage" =>
                /\ mode.stage.chapter.book \in BookFiles
                /\ mode.stage.chapter.index < Len(Entries(mode.stage.chapter.book))

\* with an index built, a leaf shows a document of no table; another document
\* is a book and a third one a stage or chapter
C8_Witness ==
    /\ lastIndex.built
    /\ \E l \in ShownLeaves : InNoTable(leaves[l].file) /\ leaves[l].mode.kind = "none"
    /\ \E f \in Files : ResolveToolbarModeForFile(lastIndex, f).kind = "book-info"
    /\ \E f \in Files : ResolveToolbarModeForFile(lastIndex, f).kind = "chapter-stage"

ValidRef(index, ref) ==
    /\ ref.book \in DOMAIN index.books.val
    /\ ref.index >= 0
    /\ ref.index < Len(index.books.val[ref.book].chapters)

\* every label and number assigned, every chapter and stage registered
CompleteSnapshot(index) ==
    /\ index.built
    /\ \A b \in DOMAIN index.books.val : \A i \in 1..Len(index.books.val[b].chapters) :
        LET c == index.books.val[b].chapters[i]
        IN /\ c.chapterLabel # NoLabel
           /\ (c.kind = "chapter") <=> (c.chapterNumber # None)
           /\ c.file \in DOMAIN index.chapters.val
           /\ \A k \in StageKinds : c[k] # None => c[k] \in DOMAIN index.stages.val
    /\ \A f \in DOMAIN index.chapters.val :
        /\ ValidRef(index, index.chapters.val[f])
        /\ ChapterAt(index.books, index.chapters.val[f]).file = f
    /\ \A d \in DOMAIN index.stages.val : ValidRef(index, index.stages.val[d].chapter)

\* C9: the index a handler reads is no index or the complete tables of one
\* finished scan.
C9_SnapshotComplete ==
    \/ lastIndex = NoIndex
    \/ /\ CompleteSnapshot(lastIndex)
       /\ \E files \in Enumerations :
            /\ ~BuildIndexRejects[<<scanned, files>>]
            /\ lastIndex = BuildIndexResult[<<scanned, files>>]

\* a 'resolved' handler published a snapshot with stage entries between leaf
\* events, and the leaf shows a stage read from it
C9_Witness ==
    /\ lastEvent = "resolved-changed"
    /\ lastIndex.stages.keys # <<>>
    /\ \E l \in ShownLeaves :
        /\ leaves[l].mode.kind = "chapter-stage"
        /\ leaves[l].file \in DOMAIN lastIndex.stages.val

\* C10: after a 'resolved' handler every mode its refresh resolved comes from
\* the snapshot its rebuild published, or from the snapshot kept when the
\* rebuild failed.
C10_RefreshAfterRebuild ==
    lastEvent \in {"resolved-changed", "resolved-published", "resolved-failed",
                   "resolved-enumeration-failed"} =>
        \A l \in {k \in ShownLeaves : leaves[k].reached} :
            /\ leaves[l].mode = ResolveToolbarModeForFile(lastIndex, leaves[l].file)
            /\ leaves[l].mode.kind = "chapter-stage" =>
                    leaves[l].targets = GetNavigationTargets(lastIndex, leaves[l].mode.stage)

\* a 'resolved' handler whose rebuild changed what a shown document resolves to
C10_Witness ==
    /\ lastEvent = "resolved-changed"
    /\ \E l \in ShownLeaves : leaves[l].mode.kind # "none"

\* C11: a build whose document enumeration fails rejects towards its caller
\* (onload stops, the 'resolved' handler's rebuild is abandoned), leaves the
\* current index as it was, and the refresh that follows answers from that
\* previous snapshot.
C11_EnumerationFailureKeepsSnapshot ==
    [][/\ lastEvent' = "onload-enumeration-failed" =>
            /\ plugin' = "failed"
            /\ lastIndex' = lastIndex
            /\ leaves' = leaves
       /\ lastEvent' = "resolved-enumeration-failed" =>
            /\ lastIndex' = lastIndex
            /\ scanned' = scanned
            /\ leaves' = [l \in Leaves |->
                            IF l \in Reached(lastIndex, leaves)
                            THEN UpdateToolbarForLeaf(lastIndex, leaves[l])
                            ELSE Unreached(leaves[l])]]_vars

\* the enumeration of a 'resolved' rebuild failed while a snapshot with stage
\* entries was current, and a leaf shows a stage answered from it
C11_Witness ==
    /\ lastEvent = "resolved-enumeration-failed"
    /\ lastIndex.built
    /\ \E l \in ShownLeaves :
        /\ leaves[l].mode.kind = "chapter-stage"
        /\ leaves[l].mode = ResolveToolbarModeForFile(lastIndex, leaves[l].file)

\* C12: whenever the enumeration succeeded, the build published a snapshot of
\* the frontmatter it read, whatever that frontmatter holds.
C12_MalformedNeverRaises ==
    /\ lastEvent # "resolved-failed"
    /\ (plugin = "failed") => lastEvent = "onload-enumeration-failed"
    /\ (plugin \in {"loading", "loaded"}
          /\ lastEvent \notin {"resolved-enumeration-failed"}) =>
            lastIndex.built /\ scanned = vault

NumberedEntries(b) ==
    {Entries(b)[i].chapterNumber : i \in {j \in 1..Len(Entries(b)) : Entries(b)[j].chapterNumber # None}}

\* C13: a book's sequence has one entry per resolvable reference, in declared
\* order and at contiguous positions, and the numbers given out are exactly
\* 1..m for the m chapter-list references that resolved.
C13_UnresolvedContributesNothing ==
    \A b \in BookFiles :
        /\ [i \in 1..Len(Entries(b)) |-> Entries(b)[i].file] = DeclaredSequence(scanned[b])
        /\ \A i \in 1..Len(Entries(b)) : Entries(b)[i].index = i - 1
        /\ NumberedEntries(b) = 1..ResolvedCount(scanned[b].chapters)

\* what the resolver answers for a document, field by field
Answer(index, d) ==
    LET mode == ResolveToolbarModeForFile(index, d)
    IN IF mode.kind = "chapter-stage"
       THEN LET c == ChapterAt(index.books, mode.stage.chapter)
            IN [kind |-> mode.kind, stage |-> mode.stage.stage, file |-> mode.stage.file,
                position |-> c.index, number |-> c.chapterNumber, label |-> c.chapterLabel,
                book |-> c.book, targets |-> GetNavigationTargets(index, mode.stage)]
       ELSE [kind |-> mode.kind, stage |-> "info", file |-> None,
             position |-> None, number |-> None, label |-> NoLabel,
             book |-> mode.book, targets |-> NoTargets]

\* a 'resolved' handler rebuilt from the frontmatter the current snapshot was
\* built from, and published
RebuiltUnchanged ==
    /\ lastIndex.built
    /\ scanned = vault
    /\ vault' = vault
    /\ lastEvent' \in {"resolved-changed", "resolved-published"}

\* C14 as claimed: a second build from unchanged documents answers the same
\* for every document, in whatever order the documents are enumerated.
C14_RebuildAnswersAlike ==
    [][RebuiltUnchanged => \A d \in Files : Answer(lastIndex', d) = Answer(lastIndex, d)]_vars

LaidOut(engine) == bar.engine = engine /\ bar.layouts >= 1 /\ ~bar.hung

VisibleWidth(b) ==
    TotalNatural([i \in 1..Len(b.widths) |-> IF b.hidden[i] THEN 0 ELSE b.widths[i]])

Contiguous(S) == \A i \in S, j \in S : \A k \in i..j : k \in S

\* the width the buttons left visible and the overflow button, if shown, take
ShownWidth(b) == VisibleWidth(b) + (IF OverflowShown(b) THEN b.ovrWidth ELSE 0)

\* C16: after a BookToolbar layout of N >= 1 buttons the hidden buttons are one
\* contiguous range, and the visible buttons together with the overflow
\* button, when shown, fit the container unless every button is hidden.
C16_SqueezeFits ==
    (LaidOut("BookToolbar") /\ Len(bar.widths) >= 1) =>
        /\ Contiguous(HiddenRange(bar))
        /\ \/ HiddenRange(bar) = 1..Len(bar.widths)
           \/ ShownWidth(bar) <= bar.containerWidth

\* some buttons are hidden, some are visible beside an overflow button of
\* positive width
C16_Witness ==
    /\ LaidOut("BookToolbar")
    /\ HiddenRange(bar) # {}
    /\ HiddenRange(bar) # 1..Len(bar.widths)
    /\ VisibleWidth(bar) > 0
    /\ bar.ovrWidth > 0
    /\ OverflowShown(bar)

\* the buttons fit the container with the engine's safety buffer
FullFit(b) ==
    IF b.engine = "BookToolbar"
    THEN TotalNatural(b.widths) + buffer <= b.containerWidth
    ELSE TotalNatural(b.widths) + 2 <= b.containerWidth

\* C17: when the buttons and the safety buffer fit the container, a layout
\* hides no button and the overflow button is not shown, on the first layout
\* as on later ones.
C17_FullFitHidesNothing ==
    (bar.layouts >= 1 /\ ~bar.hung /\ FullFit(bar)) =>
        /\ HiddenRange(bar) = {}
        /\ ~OverflowShown(bar)

\* ten buttons of one width W laid out in a container of 5.5 W
TenInFiveAndAHalf ==
    /\ bar.layouts >= 1
    /\ ~bar.hung
    /\ Len(bar.widths) = 10
    /\ 2 * bar.containerWidth = 11 * bar.widths[1]

\* the menu lists the hidden buttons, each once and in button order
MenuListsHidden(b) ==
    /\ Len(b.menu) = Cardinality(HiddenRange(b))
    /\ \A k \in 1..Len(b.menu) :
            /\ b.menu[k].button \in HiddenRange(b)
            /\ b.menu[k].title = b.buttons[b.menu[k].button].ariaLabel
            /\ k > 1 => b.menu[k - 1].button < b.menu[k].button

\* C18 as claimed: the range hidden is contiguous, two to four buttons long and
\* at the middle; what stays visible fits; the menu lists the hidden buttons.
C18_HidesTwoToFour ==
    TenInFiveAndAHalf =>
        /\ Contiguous(HiddenRange(bar))
        /\ Cardinality(HiddenRange(bar)) \in 2..4
        /\ {5, 6} \cap HiddenRange(bar) # {}
        /\ ShownWidth(bar) <= bar.containerWidth
        /\ bar.event = "menu" => MenuListsHidden(bar)

\* C18 as amended: the range hidden is contiguous, at least five buttons long
\* and contains the two middle buttons; what stays visible fits; the menu
\* lists the hidden buttons.
C18_HidesMiddleFiveOrMore ==
    TenInFiveAndAHalf =>
        /\ Contiguous(HiddenRange(bar))
        /\ Cardinality(HiddenRange(bar)) >= 5
        /\ {5, 6} \subseteq HiddenRange(bar)
        /\ ShownWidth(bar) <= bar.containerWidth
        /\ bar.event = "menu" => MenuListsHidden(bar)

\* the overflow menu of a BookToolbar with ten equal buttons in 5.5 W is open
C18_Witness ==
    /\ TenInFiveAndAHalf
    /\ bar.engine = "BookToolbar"
    /\ bar.event = "menu"
    /\ Len(bar.menu) >= 5

\* C19: the overflow menu of a BookToolbar with N >= 1 chapters has one item
\* per hidden button, in order and titled with the button's label, and none
\* for a visible button; an item opens the document its button opens.
C19_MenuMirrorsHidden ==
    (LaidOut("BookToolbar") /\ Len(bar.widths) >= 1) =>
        /\ bar.event = "menu" => MenuListsHidden(bar)
        /\ bar.event = "item" =>
                /\ bar.chosen.button \in HiddenRange(bar)
                /\ bar.opened = bar.buttons[bar.chosen.button].path

\* an item of a menu of two hidden buttons was chosen while another button
\* was visible
C19_Witness ==
    /\ LaidOut("BookToolbar")
    /\ bar.event = "item"
    /\ bar.opened # None
    /\ Cardinality(HiddenRange(bar)) >= 2
    /\ HiddenRange(bar) # 1..Len(bar.widths)

\* C20: a BookToolbar of a book without chapter entries never shows the
\* overflow button after a layout.
C20_NoChaptersNoOverflow ==
    (LaidOut("BookToolbar") /\ Len(bar.widths) = 0) => ~OverflowShown(bar)

\* C21: a refresh of a built book toolbar for the usable width of the layout
\* before it leaves every button's visibility, the overflow button's
\* visibility and the built buttons as they were.
C21_RefreshIdempotent ==
    [][(/\ bar.engine = "BookToolbar"
        /\ bar.layouts >= 1
        /\ bar'.event = "layout"
        /\ bar'.repeated)
            => /\ bar'.hidden = bar.hidden
               /\ bar'.overflow = bar.overflow
               /\ bar'.buttons = bar.buttons
               /\ bar'.built = bar.built]_vars

\* a second refresh for the same width, with part of the buttons hidden
C21_Witness ==
    /\ bar.engine = "BookToolbar"
    /\ bar.event = "layout"
    /\ bar.repeated
    /\ HiddenRange(bar) # {}
    /\ HiddenRange(bar) # 1..Len(bar.buttons)

\* --------------------------------------------------- handler switching
\* C23: after an update that resolved a mode other than none, the handler
\* registered for the leaf is of the kind that matches the mode.
C23_HandlerMatchesMode ==
    \A l \in {k \in ShownLeaves : leaves[k].reached} :
        /\ leaves[l].mode.kind = "book-info" => leaves[l].handler = "book"
        /\ leaves[l].mode.kind = "chapter-stage" => leaves[l].handler = "chapter"
\* ------------------------------------------------- toolbar element claims
Pending(p) == {ui.frames[i].book : i \in {j \in 1..Len(ui.frames) : ui.frames[j].pane = p}}

\* the step was a handler that called refresh for pane p, with the container
\* as the state before the step has it
Refreshes(p) ==
    /\ ui' # ui
    /\ ui'.event.kind \in {"update", "resize"}
    /\ ui'.event.pane = p
    /\ ui'.event.book # NoBook

\* C22: a refresh while the stylesheet is not applied or the usable width is
\* not positive raises nothing, builds nothing, changes no visibility and
\* requests one animation frame for the book; and a refresh pending for a pane
\* whose container is ready is applied for its book, unless the container
\* ceases to be ready first.
C22_NotReadyDefers ==
    /\ [][\A p \in OnePane :
            (Refreshes(p) /\ ~IsReady(ui.panes[p].container)) =>
                /\ ~ui'.event.threw
                /\ ui'.event.applied = {}
                /\ ui'.panes[p].content = ui.panes[p].content
                /\ ui'.panes[p].toolbar.built = ui.panes[p].toolbar.built
                /\ ui'.panes[p].toolbar.labels = ui.panes[p].toolbar.labels
                /\ ui'.panes[p].toolbar.hidden = ui.panes[p].toolbar.hidden
                /\ ui'.panes[p].toolbar.overflow = ui.panes[p].toolbar.overflow
                /\ ui'.labelCache = ui.labelCache
                /\ ui'.frames = Append(ui.frames, [pane |-> p, book |-> ui'.event.book])]_vars
    /\ \A p \in OnePane, book \in ToolbarBooks :
            (book \in Pending(p) /\ IsReady(ui.panes[p].container))
                ~> (\/ <<p, GetBookSignature(book)>> \in ui.event.applied
                    \/ ~IsReady(ui.panes[p].container))

\* an animation frame has applied the layout of a refresh that was deferred
C22_Witness ==
    /\ ui.event.kind = "frame"
    /\ ui.event.applied # {}
    /\ \E p \in DOMAIN ui.panes :
            /\ ui.panes[p].content.kind = "book"
            /\ ui.panes[p].toolbar.built

\* C26: after an update that found a book document in the view while the
\* container was ready, the toolbar element holds the buttons of that book.
C26_BookDocumentShowsBook ==
    \A p \in DOMAIN ui.panes :
        (/\ ui.event.kind = "update"
         /\ ui.event.pane = p
         /\ ui.event.document \in BookDocuments
         /\ IsReady(ui.panes[p].container))
            => ui.panes[p].content =
                    [kind |-> "book",
                     signature |-> GetBookSignature(MapGet(ToolbarIndex.books, ui.event.document))]

\* C27: once no re-attempt is pending for a book toolbar whose container is
\* ready, its current book and its built buttons are those of the book of the
\* last refresh call that updateToolbarForLeaf made.
C27_LatestBookWins ==
    \A p \in DOMAIN ui.panes :
        (/\ ui.panes[p].toolbar.created
         /\ Pending(p) = {}
         /\ IsReady(ui.panes[p].container))
            => /\ ui.panes[p].toolbar.currentBook = ui.panes[p].requested
               /\ ui.panes[p].toolbar.lastSignature = GetBookSignature(ui.panes[p].requested)

\* C28: the toolbar element of a pane whose BookToolbar was destroyed does not
\* hold book buttons: no callback of the destroyed handler builds into it.
C28_DestroyedLeavesContainer ==
    \A p \in DOMAIN ui.panes :
        (ui.panes[p].toolbar.created /\ ~ui.panes[p].toolbar.observing)
            => ui.panes[p].content.kind # "book"

\* ------------------------------------------------ several book toolbars
\* the step ran no refresh of pane q's toolbar
Untouched(q) ==
    \/ ui'.event.kind \in {"update", "resize"} /\ ui'.event.pane # q
    \/ ui'.event.kind = "frame" /\ Pending(q) = {}
    \/ ui'.event.kind = "container"

\* C25: a handler that runs for one book toolbar leaves the current book, the
\* signature, the buttons, their visibility and the overflow button of every
\* other toolbar as they were, and no step changes or removes an entry of the
\* label cache.
C25_InstancesApart ==
    [][/\ \A q \in Panes :
            Untouched(q) =>
                /\ ui'.panes[q].toolbar = ui.panes[q].toolbar
                /\ ui'.panes[q].content = ui.panes[q].content
                /\ ui'.panes[q].handler = ui.panes[q].handler
       /\ \A label \in DOMAIN ui.labelCache.val :
            /\ MapHas(ui'.labelCache, label)
            /\ MapGet(ui'.labelCache, label) = MapGet(ui.labelCache, label)]_vars

\* a toolbar was built for a second pane, from labels the first had measured,
\* while the first hides part of its buttons
C25_Witness ==
    /\ ui.event.kind = "update"
    /\ ui.event.pane = 2
    /\ ui.panes[2].toolbar.built
    /\ ui.panes[2].content.kind = "book"
    /\ ui.panes[1].toolbar.built
    /\ \E i \in 1..Len(ui.panes[1].toolbar.hidden) : ui.panes[1].toolbar.hidden[i]
    /\ \A i \in 1..Len(ui.panes[2].toolbar.hidden) : ~ui.panes[2].toolbar.hidden[i]

\* ------------------------------------------------------ the index as a whole
\* the step ran only toolbar updates, navigation queries or a resize refresh
QueryStep ==
    \/ plugin = "loading"
    \/ plugin = "loaded" /\ lastEvent' = "other"

\* C24: the steps that resolve toolbar modes, compute navigation targets or
\* refresh a toolbar leave the published index as it is, and whenever the
\* published index changes, a buildIndex call has completed in that step and
\* the index is, in all three tables, what buildIndex makes of the metadata it
\* read: nothing of the snapshot before it is carried over or altered.
C24_IndexReplacedWhole ==
    [][IF QueryStep
       THEN lastIndex' = lastIndex /\ scanned' = scanned
       ELSE \/ lastIndex' = lastIndex
            \/ /\ scanned' = vault'
               /\ plugin' # "failed"
               /\ lastEvent' \notin {"onload-enumeration-failed",
                                     "resolved-enumeration-failed", "resolved-failed"}
               /\ \E files \in Enumerations :
                    lastIndex' = BuildIndexResult[<<vault', files>>]]_vars

\* a 'resolved' rebuild has replaced a published snapshot by one that resolves
\* the document of a leaf differently
C24_Witness ==
    /\ lastEvent = "resolved-changed"
    /\ lastIndex.built
    /\ lastIndex = BuildIndexResult[<<scanned, Ascending>>]
    /\ \E l \in Leaves : leaves[l].reached /\ leaves[l].mode.kind # "none"

\* ------------------------------------------------ where the squeeze hides
\* the number of buttons the initial split of calculateSqueeze leaves on the
\* left: the buttons after them are the shortest tail holding half the width
PixelSplit(widths) ==
    LET tails == {q \in 1..Len(widths) :
                    2 * GetWidth(widths, q + 1, Len(widths)) >= TotalNatural(widths)}
    IN CHOOSE p \in tails \cup {1} : \A q \in tails \cup {1} : q <= p

\* C29 as stated: whenever a layout by calculateSqueeze hides buttons, the
\* hidden buttons are consecutive and the button at index floor(N/2) is one
\* of them.
C29_HiddenContainsMidpoint ==
    (LaidOut("BookToolbar") /\ HiddenRange(bar) # {}) =>
        /\ Contiguous(HiddenRange(bar))
        /\ (Len(bar.widths) \div 2) + 1 \in HiddenRange(bar)

\* C29 amended: whenever a layout by calculateSqueeze hides buttons, the
\* hidden buttons are consecutive and lie against the split by width: the
\* range ends just before the first button of the right half or starts there.
C29_HiddenTouchesPixelSplit ==
    (LaidOut("BookToolbar") /\ HiddenRange(bar) # {}) =>
        /\ Contiguous(HiddenRange(bar))
        /\ \E i \in HiddenRange(bar) : i \in {PixelSplit(bar.widths), PixelSplit(bar.widths) + 1}

\* a layout hides buttons of three and leaves the middle one visible
C29_Witness ==
    /\ LaidOut("BookToolbar")
    /\ Len(bar.widths) = 3
    /\ \A i \in 1..3 : bar.widths[i] > 0
    /\ HiddenRange(bar) # {}
    /\ 2 \notin HiddenRange(bar)

\* C30: after a layout by calculateSqueeze that hides buttons of strictly
\* positive widths, the overflow button, which build inserted before the button
\* at index SplitIndex, stands at the hidden range: hideStart <= s <= hideEnd + 1,
\* so no visible chapter button lies between it and the hidden buttons.
C30_OverflowAtHiddenRange ==
    (/\ LaidOut("BookToolbar")
     /\ \A i \in 1..Len(bar.widths) : bar.widths[i] > 0
     /\ HiddenRange(bar) # {}) =>
        /\ \E i \in HiddenRange(bar) : i - 1 <= SplitIndex(bar.widths)
        /\ \E i \in HiddenRange(bar) : SplitIndex(bar.widths) <= i

\* buttons of positive widths are hidden in the middle, visible ones remain on
\* both sides, and the overflow button stands before the first hidden one
C30_Witness ==
    /\ LaidOut("BookToolbar")
    /\ \A i \in 1..Len(bar.widths) : bar.widths[i] > 0
    /\ HiddenRange(bar) # {}
    /\ ~bar.hidden[1]
    /\ ~bar.hidden[Len(bar.widths)]
    /\ bar.hidden[SplitIndex(bar.widths) + 1]
    /\ ~bar.hidden[SplitIndex(bar.widths)]

\* ------------------------------------------------- the squeeze as a function
\* C36: runLayout ends for every container width, number of buttons and
\* measured widths.
C36_RunLayoutTerminates == bar.engine = "TruncateMiddle" => ~bar.hung

\* what calculateSqueeze returns for the toolbar's last layout
LastSqueeze == CalculateSqueeze(bar.widths, bar.ovrWidth, bar.containerWidth)

\* C37: for one button or more, calculateSqueeze returns showOverflow exactly
\* when it returns a non-empty hidden range, and after the layout the overflow
\* button is shown exactly when a button is hidden.
C37_OverflowIffHidden ==
    (LaidOut("BookToolbar") /\ Len(bar.widths) >= 1) =>
        /\ LastSqueeze.showOverflow <=>
                (/\ LastSqueeze.hideStart # Null
                 /\ LastSqueeze.hideEnd # Null
                 /\ LastSqueeze.hideStart <= LastSqueeze.hideEnd)
        /\ (bar.overflow = "shown") <=> HiddenRange(bar) # {}

\* the buttons fit the container but for the safety buffer: one is hidden and
\* the overflow button, of no measured width, is shown
C37_Witness ==
    /\ LaidOut("BookToolbar")
    /\ bar.ovrWidth = 0
    /\ TotalNatural(bar.widths) <= bar.containerWidth
    /\ bar.overflow = "shown"
    /\ Cardinality(HiddenRange(bar)) = 1

\* C39: a layout for a container no wider than that of the layout before it
\* hides every button that was hidden, and one for a container no narrower
\* hides no button that was visible.
C39_MonotoneInWidth ==
    [][(LaidOut("BookToolbar") /\ bar'.event = "layout") =>
            /\ bar'.containerWidth <= bar.containerWidth
                    => HiddenRange(bar) \subseteq HiddenRange(bar')
            /\ bar'.containerWidth >= bar.containerWidth
                    => HiddenRange(bar') \subseteq HiddenRange(bar)]_vars

\* a layout for half the width has left hidden what was hidden and hidden more
C39_Witness ==
    /\ LaidOut("BookToolbar")
    /\ bar.layouts >= 2
    /\ bar.event = "layout"
    /\ Cardinality(HiddenRange(bar)) >= 2
    /\ \E i \in 1..Len(bar.widths) : ~bar.hidden[i]
\* C31: after ensureToolbar followed by updateToolbarForLeaf for a leaf that
\* shows a book or chapter document, the handler registered for the leaf
\* renders into the toolbar element that is in the view now, also after the
\* view's DOM was replaced and a new element injected.
C31_HandlerRendersAttached ==
    \A p \in DOMAIN ui.panes :
        (/\ ui.event.kind = "shown"
         /\ ui.event.pane = p
         /\ ~ui.event.threw
         /\ ResolveToolbarModeForFile(lastIndex, ui.event.document).kind # "none")
        => /\ ui.panes[p].handler # "none"
           /\ ui.panes[p].bound = ui.panes[p].element

\* C35: once onunload has run, whatever handlers the leaves had, every
\* handler is destroyed, the handlers map is empty, every injected toolbar
\* element is removed from its view and the toolbars map is empty.
C35_UnloadLeavesNothing ==
    ~ui.loaded =>
        /\ ui.registered = <<>>
        /\ \A p \in DOMAIN ui.panes :
            /\ ui.panes[p].handler = "none"
            /\ ~ui.panes[p].toolbar.observing
            /\ ui.panes[p].element = None
            /\ ui.panes[p].tracked = None

\* C32: once refresh(book) has applied a layout, the labels of the built
\* buttons are getRequiredLabels(book), also when the book refreshed before
\* had the same document paths under different entry kinds.
C32_ButtonsMatchBook ==
    \A p \in DOMAIN ui.panes :
        (\E a \in ui.event.applied : a[1] = p)
        => ui.panes[p].toolbar.labels = GetRequiredLabels(ui.panes[p].toolbar.currentBook)

\* C34: a document is in the book table exactly when its metadata has a
\* non-empty title and a list-valued chapters field; a document missing
\* either is passed over without an error; a title with an empty chapter
\* list and no prologue or epilogue gives a book with zero entries.
C34_BookTableMembership ==
    /\ lastEvent = "built" =>
            \A f \in Files :
                /\ MapHas(lastIndex.books, f)
                        <=> (scanned[f].book_title /\ scanned[f].chaptersIsArray)
                /\ (/\ scanned[f].book_title /\ scanned[f].chaptersIsArray
                    /\ scanned[f].chapters = <<>>
                    /\ scanned[f].prologue = NoLink /\ scanned[f].epilogue = NoLink)
                   => MapGet(lastIndex.books, f).chapters = <<>>
    /\ lastEvent = "build-failed" =>
            \E f \in Files : vault[f].book_title /\ vault[f].chaptersIsArray

C34_Witness ==
    /\ lastEvent = "built"
    /\ \E f \in Files : scanned[f].book_title /\ ~scanned[f].chaptersIsArray
    /\ \E f \in Files : ~scanned[f].book_title /\ scanned[f].chaptersIsArray
    /\ \E f \in Files : ~MapHas(lastIndex.books, f) /\ scanned[f].prologue = NonStringLink
    /\ \E f \in Files : MapHas(lastIndex.books, f) /\ MapGet(lastIndex.books, f).chapters = <<>>

\* the (chapter, stage kind) pairs of the chapter table whose field is the
\* document d: <<i, s>> is stage kind StageFields[s] of the i-th chapter in
\* the table's insertion order
PairsOn(index, d) ==
    {q \in (1..Len(index.chapters.keys)) \X (1..Len(StageFields)) :
        StageFile(ChapterAt(index.books, MapGet(index.chapters, index.chapters.keys[q[1]])),
                  StageFields[q[2]]) = d}

LastPairOn(index, d) ==
    CHOOSE q \in PairsOn(index, d) :
        \A r \in PairsOn(index, d) : r[1] < q[1] \/ (r[1] = q[1] /\ r[2] <= q[2])

FrontmatterLink(fm, stage) ==
    CASE stage = "outline" -> fm.chapter_outline
      [] stage = "draft"   -> fm.chapter_draft
      [] stage = "final"   -> fm.chapter_final

\* C33: when two different (chapter, stage kind) pairs resolve to the same
\* document d, buildIndex raises no error and the stage table holds one entry
\* for d, that of the pair registered last (chapters in the chapter table's
\* insertion order, within a chapter outline, draft, final);
\* resolveToolbarModeForFile(d) returns that pair, and both chapters' fields
\* still reference d.
C33_LastPairWins ==
    /\ lastEvent = "built" =>
        \A d \in Files :
            Cardinality(PairsOn(lastIndex, d)) >= 2 =>
                LET last == LastPairOn(lastIndex, d)
                    entry == [file |-> d,
                              chapter |-> MapGet(lastIndex.chapters, lastIndex.chapters.keys[last[1]]),
                              stage |-> StageFields[last[2]]]
                IN /\ Cardinality({i \in 1..Len(lastIndex.stages.keys) :
                                        lastIndex.stages.keys[i] = d}) = 1
                   /\ MapGet(lastIndex.stages, d) = entry
                   /\ ResolveToolbarModeForFile(lastIndex, d)
                        = [kind |-> "chapter-stage", book |-> None, stage |-> entry]
                   /\ \A q \in PairsOn(lastIndex, d) :
                        ResolveWikiLink(FrontmatterLink(scanned[lastIndex.chapters.keys[q[1]]],
                                                        StageFields[q[2]])) = d
    /\ lastEvent = "build-failed" =>
        \E f \in Files :
            \/ \E k \in LinkFields : vault[f][k] = NonStringLink
            \/ \E i \in 1..Len(vault[f].chapters) : vault[f].chapters[i] = NonStringLink

\* two chapters share a stage document, and the earlier chapter's pair is of
\* a later stage kind than the winning one
C33_Witness ==
    /\ lastEvent = "built"
    /\ \E d \in Files :
        \E q, r \in PairsOn(lastIndex, d) :
            /\ q[1] < r[1]
            /\ q[2] > r[2]
            /\ MapGet(lastIndex.stages, d).stage = StageFields[r[2]]

\* the roles of document d in an index: a position in a book's chapter list,
\* or a stage of a chapter entry
RolesOf(index, d) ==
    UNION {{<<b, i, stage>> : i \in {j \in 1..Len(MapGet(index.books, b).chapters) :
                                        StageFile(MapGet(index.books, b).chapters[j], stage) = d}} :
            b \in DOMAIN index.books.val, stage \in ChapterStage}

OneRoleEach(index) == \A d \in Files : Cardinality(RolesOf(index, d)) <= 1

\* the stage entries resolveToolbarModeForFile gives for the documents
StagesOf(index) ==
    {ResolveToolbarModeForFile(index, f).stage :
        f \in {g \in Files : ResolveToolbarModeForFile(index, g).kind = "chapter-stage"}}

\* from stage S the target in direction `there` is a document that resolves to
\* the same stage kind on the chapter `delta` positions on in the same book,
\* whose target in direction `back` is S's document
RoundTrip(index, S, there, back, delta) ==
    LET target == GetNavigationTargets(index, S)[there]
        mode == ResolveToolbarModeForFile(index, target.file)
    IN target.kind = "file" =>
        /\ mode.kind = "chapter-stage"
        /\ mode.stage.stage = S.stage
        /\ mode.stage.chapter = [book |-> S.chapter.book, index |-> S.chapter.index + delta]
        /\ GetNavigationTargets(index, mode.stage)[back] = FileTarget(S.file)

\* C38: in an index where every document plays at most one role, the next
\* target of a stage S resolves to the same stage kind on the following
\* chapter of the same book, and the previous target of that stage is S's
\* document; symmetrically for previous followed by next.
C38_NextThenPrevious ==
    (lastEvent = "built" /\ OneRoleEach(lastIndex)) =>
        \A S \in StagesOf(lastIndex) :
            /\ RoundTrip(lastIndex, S, "next", "previous", 1)
            /\ RoundTrip(lastIndex, S, "previous", "next", -1)

C38_Witness ==
    /\ lastEvent = "built"
    /\ OneRoleEach(lastIndex)
    /\ \E S \in StagesOf(lastIndex) :
        /\ S.stage = "outline"
        /\ GetNavigationTargets(lastIndex, S).next.kind = "file"
    /\ \E S \in StagesOf(lastIndex) :
        /\ S.stage = "info"
        /\ GetNavigationTargets(lastIndex, S).previous.kind = "file"

====
